---- MODULE Spec2Model ----
(***************************************************************************)
(* Uniformity-analysis validation tests of the WebGPU CTS.                 *)
(*                                                                         *)
(* The test file builds WGSL programs from tables of cases (kConditions,   *)
(* kFuncVarCases, kPointerCases, ...) and records, for each program, the   *)
(* verdict the shader compiler's uniformity analysis has to give.  The     *)
(* model has two halves:                                                   *)
(*   - the tables and program generators, transcribed from the test file   *)
(*     as abstract syntax trees together with their expected verdicts;     *)
(*   - a reference uniformity analysis (lattice, expression evaluator,     *)
(*     statement analyzer, pointer tracker, diagnostic reporter) that      *)
(*     stands for the compiler behind expectCompileResult.                 *)
(* One action models one g.test(...) function run on one parameter         *)
(* combination.                                                            *)
(***************************************************************************)
EXTENDS Integers, Sequences, FiniteSets, TLC

VARIABLES test, params, calls, post, program, checked

vars == <<test, params, calls, post, program, checked>>

(***************************************************************************)
(* Bounds                                                                  *)
(***************************************************************************)
\* Cap on the number of passes of the fixed-point iteration over one loop.
MaxPasses == 6

(***************************************************************************)
(* Uniformity lattice                                                      *)
(***************************************************************************)
Uniform == "Uniform"
Divergent == "Divergent"

Meet(a, b) == IF a = Uniform /\ b = Uniform THEN Uniform ELSE Divergent

Max(a, b) == IF a >= b THEN a ELSE b

(***************************************************************************)
(* Abstract syntax of the WGSL fragments the tests generate                *)
(***************************************************************************)
\* Expressions
Leaf(kind, name) == [k |-> "leaf", kind |-> kind, name |-> name]
LitN(n) == Leaf("literal", n)
Lit == LitN("0")
Var(name) == [k |-> "var", name |-> name]
Member(base, field) == [k |-> "member", base |-> base, field |-> field]
Index(base, idx) == [k |-> "index", base |-> base, idx |-> idx]
Bin(op, l, r) == [k |-> "bin", op |-> op, l |-> l, r |-> r]
Un(op, e) == [k |-> "un", op |-> op, e |-> e]
ShortCircuit(op, l, r) == [k |-> "sc", op |-> op, l |-> l, r |-> r]
Call(op, args) == [k |-> "call", op |-> op, args |-> args]
AddrOf(e) == [k |-> "addr", e |-> e]
Deref(e) == [k |-> "deref", e |-> e]
NoExpr == [k |-> "none"]

\* Statements
Let(name, e) == [k |-> "let", name |-> name, e |-> e]
VarDecl(name, e) == [k |-> "vardecl", name |-> name, e |-> e]
Assign(lhs, e) == [k |-> "assign", lhs |-> lhs, e |-> e]
Compound(lhs, op, e) == [k |-> "compound", lhs |-> lhs, op |-> op, e |-> e]
ExprStmt(e) == [k |-> "expr", e |-> e]
If(c, t, e) == [k |-> "if", c |-> c, t |-> t, e |-> e]
Loop(body, cont, brkif) == [k |-> "loop", body |-> body, cont |-> cont, brkif |-> brkif]
For(init, c, upd, body) == [k |-> "for", init |-> init, c |-> c, upd |-> upd, body |-> body]
While(c, body) == [k |-> "while", c |-> c, body |-> body]
Switch(sel, bodies) == [k |-> "switch", sel |-> sel, bodies |-> bodies]
Break == [k |-> "break"]
Continue == [k |-> "continue"]
Return == [k |-> "return"]

(***************************************************************************)
(* Registry of collective operations                                       *)
(***************************************************************************)
kCollectiveOps ==
  << [op |-> "textureSample", stage |-> "fragment"],
     [op |-> "textureSampleBias", stage |-> "fragment"],
     [op |-> "textureSampleCompare", stage |-> "fragment"],
     [op |-> "dpdx", stage |-> "fragment"],
     [op |-> "dpdxCoarse", stage |-> "fragment"],
     [op |-> "dpdxFine", stage |-> "fragment"],
     [op |-> "dpdy", stage |-> "fragment"],
     [op |-> "dpdyCoarse", stage |-> "fragment"],
     [op |-> "dpdyFine", stage |-> "fragment"],
     [op |-> "fwidth", stage |-> "fragment"],
     [op |-> "fwidthCoarse", stage |-> "fragment"],
     [op |-> "fwidthFine", stage |-> "fragment"],
     [op |-> "storageBarrier", stage |-> "compute"],
     [op |-> "workgroupBarrier", stage |-> "compute"],
     [op |-> "workgroupUniformLoad", stage |-> "compute"] >>

CollectiveOpNames == {kCollectiveOps[i].op : i \in DOMAIN kCollectiveOps}

StageOf(op) ==
  kCollectiveOps[CHOOSE i \in DOMAIN kCollectiveOps : kCollectiveOps[i].op = op].stage

\* The operations the derivative_uniformity diagnostic covers: the
\* fragment-stage (derivative and implicit-LOD sampling) operations.
IsDerivativeOp(op) == op \in CollectiveOpNames /\ StageOf(op) = "fragment"

(***************************************************************************)
(* Base facts of the lattice: the tag of a leaf binding                    *)
(***************************************************************************)
UniformBuiltins == {"workgroup_id", "num_workgroups"}

LeafTag(kind, name) ==
  CASE kind \in {"literal", "const", "override", "uniform_buffer",
                 "storage_ro", "handle"} -> Uniform
    [] kind \in {"storage_rw", "private", "workgroup"} -> Divergent
    [] kind = "builtin" -> IF name \in UniformBuiltins THEN Uniform ELSE Divergent

(***************************************************************************)
(* Analysis state                                                          *)
(***************************************************************************)
\* Every function-scope name (var, let, parameter-free temporaries) that the
\* generated programs declare.
VarNames ==
  {"x", "i", "tmp", "u_let", "n_let", "u_f", "n_f", "texel", "res",
   "i_tmp", "b_tmp", "func_scalar", "func_array", "func_struct",
   "ptr", "p", "p1", "p2", "p3", "p4", "p5", "p6", "test_val", "lid", "gid"}

NoPtr == [root |-> "", kind |-> "none", addr |-> Uniform, whole |-> FALSE]

\* v: VariableState per name; ptr: PointerState (designated root, address
\* tag, whole-variable flag) per let-bound pointer; cf: the ambient execution uniformity; off:
\* whether derivative_uniformity diagnostics are switched off.
InitState(off) ==
  [v |-> [n \in VarNames |-> Uniform],
   ptr |-> [n \in VarNames |-> NoPtr],
   cf |-> Uniform,
   off |-> off]

\* Mutant: a join keeps the variable tags of the edge processed first.
MeetSt_FirstEdge(s1, s2) ==
  [v |-> s1.v,
   ptr |-> s1.ptr,
   cf |-> Meet(s1.cf, s2.cf),
   off |-> s1.off]

MeetSt(s1, s2) ==
  [v |-> [n \in VarNames |-> Meet(s1.v[n], s2.v[n])],
   ptr |-> s1.ptr,
   cf |-> Meet(s1.cf, s2.cf),
   off |-> s1.off]

WithCf(st, tag) == [st EXCEPT !.cf = Meet(st.cf, tag)]

\* The contents tag of the storage a reference or pointer designates.
Contents(root, kind, st) ==
  IF kind = "function" THEN st.v[root] ELSE LeafTag(kind, root)

(***************************************************************************)
(* Diagnostic reporter                                                     *)
(***************************************************************************)
\* Whether a collective call site is a violation: it is when the ambient
\* execution uniformity is Divergent, and when an argument that is required
\* to be a uniform value (the pointer of workgroupUniformLoad) is not.  A
\* switched-off derivative_uniformity diagnostic reports nothing for the
\* operations it covers.
CheckCallSite(op, cf, argAddr, off) ==
  IF off /\ IsDerivativeOp(op) THEN FALSE
  ELSE \/ cf = Divergent
       \/ op = "workgroupUniformLoad" /\ argAddr = Divergent

\* The record the reporter keeps of one call site: the operation, the
\* ambient execution uniformity there, the address tag of its first
\* argument, and the verdict.
CallSite(op, cf, argAddr, off) ==
  [op |-> op, cf |-> cf, addr |-> argAddr,
   violation |-> CheckCallSite(op, cf, argAddr, off)]

(***************************************************************************)
(* Expression evaluator                                                    *)
(***************************************************************************)
\* The result of evaluating an expression: tag is the uniformity of its
\* value; for a reference or pointer, root/kind name the storage it
\* designates, addr is its address tag and whole tells whether it designates
\* the whole variable rather than one member or element; sites lists the
\* collective call sites inside it, in evaluation order.
Value(tag, sites) ==
  [tag |-> tag, addr |-> Uniform, root |-> "", kind |-> "value",
   whole |-> FALSE, sites |-> sites]

\* F applied to the value of x (two values for Bind2), computed once.
Bind(x, F(_)) == CHOOSE y \in {F(v) : v \in {x}} : TRUE
Bind2(x1, x2, F(_, _)) == CHOOSE y \in {F(v[1], v[2]) : v \in {<<x1, x2>>}} : TRUE

RECURSIVE Eval(_, _)
RECURSIVE EvalArgs(_, _, _)

\* Meet of the argument tags and the call sites inside them, left to right.
EvalArgs(args, i, st) ==
  IF i > Len(args) THEN Value(Uniform, <<>>)
  ELSE Bind2(Eval(args[i], st), EvalArgs(args, i + 1, st),
             LAMBDA a, rest :
               [tag |-> Meet(a.tag, rest.tag),
                addr |-> IF i = 1 THEN a.addr ELSE rest.addr,
                root |-> "", kind |-> "value", whole |-> FALSE,
                sites |-> a.sites \o rest.sites])

Eval(e, st) ==
  CASE e.k = "leaf" ->
         [tag |-> LeafTag(e.kind, e.name), addr |-> Uniform,
          root |-> e.name, kind |-> e.kind, whole |-> TRUE, sites |-> <<>>]
    [] e.k = "var" ->
         IF st.ptr[e.name].kind # "none"
         THEN [tag |-> st.ptr[e.name].addr, addr |-> st.ptr[e.name].addr,
               root |-> st.ptr[e.name].root, kind |-> st.ptr[e.name].kind,
               whole |-> st.ptr[e.name].whole, sites |-> <<>>]
         ELSE [tag |-> st.v[e.name], addr |-> Uniform,
               root |-> e.name, kind |-> "function", whole |-> TRUE,
               sites |-> <<>>]
    [] e.k = "member" -> [Eval(e.base, st) EXCEPT !.whole = FALSE]
    [] e.k = "index" ->
         Bind2(Eval(e.base, st), Eval(e.idx, st),
               LAMBDA b, ix :
                 [tag |-> Meet(b.tag, ix.tag), addr |-> Meet(b.addr, ix.tag),
                  root |-> b.root, kind |-> b.kind, whole |-> FALSE,
                  sites |-> b.sites \o ix.sites])
    [] e.k = "addr" ->
         Bind(Eval(e.e, st), LAMBDA b : [b EXCEPT !.tag = b.addr])
    [] e.k = "deref" ->
         Bind(Eval(e.e, st),
              LAMBDA b : [b EXCEPT !.tag = Meet(Contents(b.root, b.kind, st), b.addr)])
    [] e.k = "un" ->
         Bind(Eval(e.e, st), LAMBDA a : Value(a.tag, a.sites))
    [] e.k = "bin" ->
         Bind2(Eval(e.l, st), Eval(e.r, st),
               LAMBDA l, r : Value(Meet(l.tag, r.tag), l.sites \o r.sites))
    [] e.k = "sc" ->
         \* the right operand is control-dependent on the left one
         Bind(Eval(e.l, st),
              LAMBDA l :
                Bind(Eval(e.r, WithCf(st, l.tag)),
                     LAMBDA r : Value(Meet(l.tag, r.tag), l.sites \o r.sites)))
    [] e.k = "call" ->
         Bind(EvalArgs(e.args, 1, st),
              LAMBDA a :
                Value(IF e.op = "workgroupUniformLoad" THEN Uniform ELSE a.tag,
                      a.sites \o (IF e.op \in CollectiveOpNames
                                  THEN <<CallSite(e.op, st.cf, a.addr, st.off)>>
                                  ELSE <<>>)))

(***************************************************************************)
(* Statement / control-construct analyzer                                  *)
(***************************************************************************)
\* The result of analysing a statement (list) from an entry state:
\*   next/live  the state on the fall-through edge, if that edge is reachable
\*   brk/hasBrk the meet of the states at the break statements that leave
\*              the closest enclosing loop or switch
\*   cont/hasCont the same for continue statements
\*   ret        whether some path ends in return
\*   sites      the collective call sites met, with their verdicts
\*   passes     the largest number of passes a loop inside needed
Fall(st, sites) ==
  [next |-> st, live |-> TRUE, brk |-> st, hasBrk |-> FALSE,
   cont |-> st, hasCont |-> FALSE, ret |-> FALSE, sites |-> sites,
   passes |-> 0]

Dead(st) ==
  [next |-> st, live |-> FALSE, brk |-> st, hasBrk |-> FALSE,
   cont |-> st, hasCont |-> FALSE, ret |-> FALSE, sites |-> <<>>, passes |-> 0]

\* Mutant: the state of the edge processed last replaces the state of the
\* join instead of being merged into it.
JoinOpt_LastEdge(a, la, b, lb) ==
  IF lb THEN MeetSt(b, b) ELSE MeetSt(a, a)

\* Meet over the reachable ones of two edges.
JoinOpt(a, la, b, lb) ==
  IF la /\ lb THEN MeetSt(a, b) ELSE IF la THEN a ELSE b

Escapes(r) == r.hasBrk \/ r.hasCont \/ r.ret

\* A pointer-typed initialiser: an address-of, or the name of a pointer.
IsPtrExpr(e, st) ==
  \/ e.k = "addr"
  \/ e.k = "var" /\ st.ptr[e.name].kind # "none"

\* let name = e;  and  var name = e;  (NoExpr: the default value)
Declare(name, e, st) ==
  IF e.k = "none"
  THEN Fall([st EXCEPT !.v[name] = st.cf, !.ptr[name] = NoPtr], <<>>)
  ELSE Bind(Eval(e, st),
            LAMBDA r :
              IF IsPtrExpr(e, st)
              THEN Fall([st EXCEPT
                           !.ptr[name] = [root |-> r.root, kind |-> r.kind,
                                          addr |-> Meet(r.addr, st.cf),
                                          whole |-> r.whole]],
                        r.sites)
              ELSE Fall([st EXCEPT !.v[name] = Meet(r.tag, st.cf),
                                   !.ptr[name] = NoPtr],
                        r.sites))

\* lhs = e;  a write through a reference to the whole variable replaces the
\* variable's tag, a write to a member or element merges with it.
Store(lhs, e, st) ==
  Bind2(Eval(lhs, st), Eval(e, st),
        LAMBDA l, r :
          LET val == Meet(Meet(r.tag, l.addr), st.cf)
              new == IF l.whole THEN val
                     ELSE Meet(Contents(l.root, l.kind, st), val)
          IN  IF l.kind = "function"
              THEN Fall([st EXCEPT !.v[l.root] = new], l.sites \o r.sites)
              ELSE Fall(st, l.sites \o r.sites))

\* lhs op= e;  is  lhs = lhs op e;
CompoundStore(lhs, e, st) ==
  Bind2(Eval(lhs, st), Eval(e, st),
        LAMBDA l, r :
          LET old == Meet(Contents(l.root, l.kind, st), l.addr)
              new == Meet(Meet(old, r.tag), st.cf)
          IN  IF l.kind = "function"
              THEN Fall([st EXCEPT !.v[l.root] = new], l.sites \o r.sites)
              ELSE Fall(st, l.sites \o r.sites))

\* for (init; c; upd) body   as   init; loop { if !c { break } body
\* continuing { upd } };  a for without a condition gets no break-guard.
DesugarFor(s) ==
  Loop((IF s.c.k = "none" THEN <<>> ELSE <<If(Un("!", s.c), <<Break>>, <<>>)>>)
         \o s.body,
       s.upd, NoExpr)

\* while c body   as   loop { if !c { break } body }
DesugarWhile(s) ==
  Loop(<<If(Un("!", s.c), <<Break>>, <<>>)>> \o s.body, <<>>, NoExpr)

RECURSIVE AnalyzeStmt(_, _)
RECURSIVE AnalyzeSeq(_, _, _)
RECURSIVE AnalyzeLoop(_, _, _, _)
RECURSIVE AnalyzeCases(_, _, _, _)
RECURSIVE AnalyzeContinuing(_, _)

\* Statements i.. of a block; statements after an unconditional exit are
\* unreachable and contribute nothing.
AnalyzeSeq(stmts, i, st) ==
  IF i > Len(stmts) THEN Fall(st, <<>>)
  ELSE Bind(AnalyzeStmt(stmts[i], st),
            LAMBDA r1 :
              IF ~r1.live THEN r1
              ELSE Bind(AnalyzeSeq(stmts, i + 1, r1.next),
                        LAMBDA r2 :
                          [next |-> r2.next, live |-> r2.live,
                           brk |-> JoinOpt(r1.brk, r1.hasBrk, r2.brk, r2.hasBrk),
                           hasBrk |-> r1.hasBrk \/ r2.hasBrk,
                           cont |-> JoinOpt(r1.cont, r1.hasCont, r2.cont, r2.hasCont),
                           hasCont |-> r1.hasCont \/ r2.hasCont,
                           ret |-> r1.ret \/ r2.ret,
                           sites |-> r1.sites \o r2.sites,
                           passes |-> Max(r1.passes, r2.passes)]))

\* if c {T} else {E}
AnalyzeIf(s, st) ==
  Bind(Eval(s.c, st),
       LAMBDA c :
         Bind2(AnalyzeSeq(s.t, 1, WithCf(st, c.tag)),
               AnalyzeSeq(s.e, 1, WithCf(st, c.tag)),
               LAMBDA t, e :
                 [next |-> IF Escapes(t) \/ Escapes(e)
                           THEN JoinOpt(t.next, t.live, e.next, e.live)
                           ELSE [JoinOpt(t.next, t.live, e.next, e.live)
                                   EXCEPT !.cf = st.cf],
                  live |-> t.live \/ e.live,
                  brk |-> JoinOpt(t.brk, t.hasBrk, e.brk, e.hasBrk),
                  hasBrk |-> t.hasBrk \/ e.hasBrk,
                  cont |-> JoinOpt(t.cont, t.hasCont, e.cont, e.hasCont),
                  hasCont |-> t.hasCont \/ e.hasCont,
                  ret |-> t.ret \/ e.ret,
                  sites |-> c.sites \o t.sites \o e.sites,
                  passes |-> Max(t.passes, e.passes)]))

\* The bodies i.. of a switch, each entered from the state `inner`; a break
\* in a body leaves the switch and joins the fall-off-the-end states.
AnalyzeCases(bodies, i, inner, acc) ==
  IF i > Len(bodies) THEN acc
  ELSE Bind(AnalyzeSeq(bodies[i], 1, inner),
            LAMBDA b :
              Bind([next |-> JoinOpt(acc.next, acc.live,
                                     JoinOpt(b.next, b.live, b.brk, b.hasBrk),
                                     b.live \/ b.hasBrk),
                    live |-> acc.live \/ b.live \/ b.hasBrk,
                    brk |-> acc.brk, hasBrk |-> FALSE,
                    cont |-> JoinOpt(acc.cont, acc.hasCont, b.cont, b.hasCont),
                    hasCont |-> acc.hasCont \/ b.hasCont,
                    ret |-> acc.ret \/ b.ret,
                    sites |-> acc.sites \o b.sites,
                    passes |-> Max(acc.passes, b.passes)],
                   LAMBDA acc2 : AnalyzeCases(bodies, i + 1, inner, acc2)))

\* switch sel { bodies }
AnalyzeSwitch(s, st) ==
  Bind(Eval(s.sel, st),
       LAMBDA c :
         Bind(AnalyzeCases(s.bodies, 1, WithCf(st, c.tag), Dead(WithCf(st, c.tag))),
              LAMBDA r :
                [r EXCEPT !.next = IF r.hasCont \/ r.ret THEN r.next
                                   ELSE [r.next EXCEPT !.cf = st.cf],
                          !.sites = c.sites \o r.sites]))

\* The continuing block of a loop whose body gave b, entered from the meet
\* of the body's fall-through edge and its continue statements.
AnalyzeContinuing(s, b) ==
  IF b.live \/ b.hasCont
  THEN AnalyzeSeq(s.cont, 1, JoinOpt(b.next, b.live, b.cont, b.hasCont))
  ELSE Dead(JoinOpt(b.next, b.live, b.cont, b.hasCont))

\* The break-if of a loop whose continuing block gave c.
EvalBreakIf(s, c) ==
  IF c.live /\ s.brkif.k # "none" THEN Eval(s.brkif, c.next)
  ELSE Value(Uniform, <<>>)

\* Mutant: the iteration over a loop is given up after its second pass.
AnalyzeLoop_TwoPasses(s, st, entry, pass) ==
  Bind(AnalyzeSeq(s.body, 1, entry),
       LAMBDA b :
         Bind(AnalyzeContinuing(s, b),
              LAMBDA c :
                Bind(EvalBreakIf(s, c),
                     LAMBDA cond :
                       \* after: the state on both edges of the break-if
                       Bind2(WithCf(c.next, cond.tag),
                             JoinOpt(st, TRUE, WithCf(c.next, cond.tag), c.live),
                             LAMBDA after, back :
                               IF back # entry /\ pass < 2
                               THEN AnalyzeLoop(s, st, back, pass + 1)
                               ELSE [next |->
                                       [JoinOpt(b.brk, b.hasBrk, after,
                                                c.live /\ s.brkif.k # "none")
                                          EXCEPT !.cf = IF b.ret \/ c.ret
                                                        THEN entry.cf ELSE st.cf],
                                     live |-> b.hasBrk
                                                \/ (c.live /\ s.brkif.k # "none"),
                                     brk |-> st, hasBrk |-> FALSE,
                                     cont |-> st, hasCont |-> FALSE,
                                     ret |-> b.ret \/ c.ret,
                                     sites |-> b.sites \o c.sites \o cond.sites,
                                     passes |-> Max(pass,
                                                    Max(b.passes, c.passes))]))))

\* loop { body continuing { cont; break if brkif } } entered from `st`;
\* `entry` is the current approximation of the state at the loop header (the
\* meet of `st` and the back edge) and `pass` the number of this pass.
AnalyzeLoop(s, st, entry, pass) ==
  Bind(AnalyzeSeq(s.body, 1, entry),
       LAMBDA b :
         Bind(AnalyzeContinuing(s, b),
              LAMBDA c :
                Bind(EvalBreakIf(s, c),
                     LAMBDA cond :
                       \* after: the state on both edges of the break-if
                       Bind2(WithCf(c.next, cond.tag),
                             JoinOpt(st, TRUE, WithCf(c.next, cond.tag), c.live),
                             LAMBDA after, back :
                               IF back # entry /\ pass < MaxPasses
                               THEN AnalyzeLoop(s, st, back, pass + 1)
                               ELSE [next |->
                                       [JoinOpt(b.brk, b.hasBrk, after,
                                                c.live /\ s.brkif.k # "none")
                                          EXCEPT !.cf = IF b.ret \/ c.ret
                                                        THEN entry.cf ELSE st.cf],
                                     live |-> b.hasBrk
                                                \/ (c.live /\ s.brkif.k # "none"),
                                     brk |-> st, hasBrk |-> FALSE,
                                     cont |-> st, hasCont |-> FALSE,
                                     ret |-> b.ret \/ c.ret,
                                     sites |-> b.sites \o c.sites \o cond.sites,
                                     passes |-> Max(pass,
                                                    Max(b.passes, c.passes))]))))

AnalyzeStmt(s, st) ==
  CASE s.k \in {"let", "vardecl"} -> Declare(s.name, s.e, st)
    [] s.k = "assign" -> Store(s.lhs, s.e, st)
    [] s.k = "compound" -> CompoundStore(s.lhs, s.e, st)
    [] s.k = "expr" -> Fall(st, Eval(s.e, st).sites)
    [] s.k = "if" -> AnalyzeIf(s, st)
    [] s.k = "switch" -> AnalyzeSwitch(s, st)
    [] s.k = "loop" -> AnalyzeLoop(s, st, st, 1)
    [] s.k = "while" -> AnalyzeLoop(DesugarWhile(s), st, st, 1)
    [] s.k = "for" ->
         Bind(AnalyzeSeq(s.init, 1, st),
              LAMBDA i :
                Bind(AnalyzeLoop(DesugarFor(s), i.next, i.next, 1),
                     LAMBDA l : [l EXCEPT !.sites = i.sites \o l.sites]))
    [] s.k = "break" -> [Dead(st) EXCEPT !.hasBrk = TRUE]
    [] s.k = "continue" -> [Dead(st) EXCEPT !.hasCont = TRUE]
    [] s.k = "return" -> [Dead(st) EXCEPT !.ret = TRUE]

\* The analysis of one function body: the final state, the call sites and
\* the largest number of loop passes.
Analyze(body, off) == AnalyzeSeq(body, 1, InitState(off))

\* Mutant: only the first violation of a function is reported.
Violations_FirstOnly(sites) ==
  {i \in DOMAIN sites :
     sites[i].violation /\ \A j \in 1..(i - 1) : ~sites[j].violation}
Violations(sites) == {i \in DOMAIN sites : sites[i].violation}

\* The compiler accepts a program iff the analysis reports no violation.
Compiles(body, off) == Violations(Analyze(body, off).sites) = {}

(***************************************************************************)
(* The test harness                                                        *)
(*                                                                         *)
(* Every test case runs once, on a fresh fixture: test is "none" until the *)
(* case's function has run, and then names the test; params are the case's *)
(* parameters, calls the expectCompileResult calls it made, in order, and  *)
(* post the analysis of the program without the diagnostic directive.      *)
(***************************************************************************)
\* t.expectCompileResult(expected, code): the recorded call, with the verdict
\* of the compiler on the code; off tells whether the code starts with
\* diagnostic(off, derivative_uniformity);
expectCompileResult(expected, body, off) ==
  [expected |-> expected, off |-> off, accepted |-> Compiles(body, off)]

\* What the state keeps of the analysis of the program under test.
Summary(result) ==
  Bind(result,
       LAMBDA r : [v |-> r.next.v, cf |-> r.next.cf, live |-> r.live,
                   sites |-> r.sites, passes |-> r.passes])

keysOf(table) == DOMAIN table

\* No execution-test check function has run.
NoCheck == [fn |-> "none"]

NoParams ==
  [op |-> "", cond |-> "", statement |-> "", case |-> "", init |-> "",
   builtin |-> "", e1 |-> "", e2 |-> ""]

\* textureSample(t, s, vec2f(0,0))
TextureSampleCall ==
  Call("textureSample", <<Leaf("handle", "t"), Leaf("handle", "s"), Lit>>)

(***************************************************************************)
(* g.test('basics')                                                        *)
(***************************************************************************)
kConditions ==
  << [cond |-> "uniform_storage_ro", expectation |-> TRUE],
     [cond |-> "nonuniform_storage_ro", expectation |-> FALSE],
     [cond |-> "nonuniform_storage_rw", expectation |-> FALSE],
     [cond |-> "nonuniform_builtin", expectation |-> FALSE],
     [cond |-> "uniform_literal", expectation |-> TRUE],
     [cond |-> "uniform_const", expectation |-> TRUE],
     [cond |-> "uniform_override", expectation |-> TRUE],
     [cond |-> "uniform_let", expectation |-> TRUE],
     [cond |-> "nonuniform_let", expectation |-> FALSE],
     [cond |-> "uniform_or", expectation |-> TRUE],
     [cond |-> "nonuniform_or1", expectation |-> FALSE],
     [cond |-> "nonuniform_or2", expectation |-> FALSE],
     [cond |-> "uniform_and", expectation |-> TRUE],
     [cond |-> "nonuniform_and1", expectation |-> FALSE],
     [cond |-> "nonuniform_and2", expectation |-> FALSE],
     [cond |-> "uniform_func_var", expectation |-> TRUE],
     [cond |-> "nonuniform_func_var", expectation |-> FALSE] >>

EqZero(e) == Bin("==", e, Lit)

generateCondition(condition) ==
  CASE condition = "uniform_storage_ro" ->
         EqZero(Index(Leaf("storage_ro", "ro_buffer"), Lit))
    [] condition = "nonuniform_storage_ro" ->
         EqZero(Index(Leaf("storage_ro", "ro_buffer"),
                      Index(Leaf("private", "priv_var"), Lit)))
    [] condition = "nonuniform_storage_rw" ->
         EqZero(Index(Leaf("storage_rw", "rw_buffer"), Lit))
    [] condition = "nonuniform_builtin" -> EqZero(Member(Var("p"), "x"))
    [] condition = "uniform_literal" -> Leaf("literal", "false")
    [] condition = "uniform_const" -> Leaf("const", "c")
    [] condition = "uniform_override" -> EqZero(Leaf("override", "o"))
    [] condition = "uniform_let" -> EqZero(Var("u_let"))
    [] condition = "nonuniform_let" -> EqZero(Var("n_let"))
    [] condition = "uniform_or" ->
         ShortCircuit("||", EqZero(Var("u_let")),
                      Bin(">", Member(Leaf("uniform_buffer", "uniform_buffer"), "y"), LitN("1")))
    [] condition = "nonuniform_or1" ->
         ShortCircuit("||", EqZero(Var("u_let")), EqZero(Var("n_let")))
    [] condition = "nonuniform_or2" ->
         ShortCircuit("||", EqZero(Var("n_let")), EqZero(Var("u_let")))
    [] condition = "uniform_and" ->
         ShortCircuit("&&", EqZero(Var("u_let")),
                      Bin(">", Member(Leaf("uniform_buffer", "uniform_buffer"), "y"), LitN("1")))
    [] condition = "nonuniform_and1" ->
         ShortCircuit("&&", EqZero(Var("u_let")), EqZero(Var("n_let")))
    [] condition = "nonuniform_and2" ->
         ShortCircuit("&&", EqZero(Var("n_let")), EqZero(Var("u_let")))
    [] condition = "uniform_func_var" -> EqZero(Var("u_f"))
    [] condition = "nonuniform_func_var" -> EqZero(Var("n_f"))

generateOp(op) ==
  CASE op = "textureSample" ->
         Let("x", Call(op, <<Leaf("handle", "tex"), Leaf("handle", "s"), Lit>>))
    [] op = "textureSampleBias" ->
         Let("x", Call(op, <<Leaf("handle", "tex"), Leaf("handle", "s"), Lit, Lit>>))
    [] op = "textureSampleCompare" ->
         Let("x", Call(op, <<Leaf("handle", "tex_depth"), Leaf("handle", "s_comp"),
                             Lit, Lit>>))
    [] op \in {"storageBarrier", "workgroupBarrier"} -> ExprStmt(Call(op, <<>>))
    [] op = "workgroupUniformLoad" ->
         Let("x", Call(op, <<AddrOf(Leaf("workgroup", "wg"))>>))
    [] op \in {"dpdx", "dpdxCoarse", "dpdxFine", "dpdy", "dpdyCoarse", "dpdyFine",
               "fwidth", "fwidthCoarse", "fwidthFine"} ->
         Let("x", Call(op, <<Lit>>))

\* Mutant: the for statement is generated without its condition.
generateConditionalStatement_ForNoCond(statement, condition, op) ==
  CASE statement = "if" ->
         If(generateCondition(condition), <<generateOp(op)>>, <<>>)
    [] statement = "for" ->
         For(<<>>, NoExpr, <<>>, <<generateOp(op)>>)
    [] statement = "while" ->
         While(generateCondition(condition), <<generateOp(op)>>)
    [] statement = "switch" ->
         Switch(Un("u32", generateCondition(condition)),
                << <<generateOp(op)>>, <<>> >>)

generateConditionalStatement(statement, condition, op) ==
  CASE statement = "if" ->
         If(generateCondition(condition), <<generateOp(op)>>, <<>>)
    [] statement = "for" ->
         For(<<>>, generateCondition(condition), <<>>, <<generateOp(op)>>)
    [] statement = "while" ->
         While(generateCondition(condition), <<generateOp(op)>>)
    [] statement = "switch" ->
         Switch(Un("u32", generateCondition(condition)),
                << <<generateOp(op)>>, <<>> >>)

kStatements == {"if", "for", "while", "switch"}

\* The body of main() the test builds; the parameter p is bound to the
\* stage's built-in value.
BasicsCode(op, stage, cond, statement) ==
  << Let("p", Leaf("builtin", IF stage = "compute" THEN "global_invocation_id"
                              ELSE "position")),
     Let("u_let", Member(Leaf("uniform_buffer", "uniform_buffer"), "x")),
     Let("n_let", Index(Leaf("storage_rw", "rw_buffer"), Lit)),
     VarDecl("u_f", Member(Leaf("uniform_buffer", "uniform_buffer"), "z")),
     VarDecl("n_f", Index(Leaf("storage_rw", "rw_buffer"), LitN("1"))),
     generateConditionalStatement(statement, cond, op) >>

basics ==
  \E o \in DOMAIN kCollectiveOps, c \in DOMAIN kConditions, s \in kStatements :
    LET code == BasicsCode(kCollectiveOps[o].op, kCollectiveOps[o].stage,
                           kConditions[c].cond, s)
    IN  /\ test = "none"
        /\ test' = "basics"
        /\ params' = [NoParams EXCEPT !.op = kCollectiveOps[o].op,
                                      !.cond = kConditions[c].cond,
                                      !.statement = s]
        /\ calls' = <<expectCompileResult(kConditions[c].expectation, code, FALSE)>>
        /\ post' = Summary(Analyze(code, FALSE))
        /\ program' = code
        /\ UNCHANGED checked

(***************************************************************************)
(* g.test('fragment_builtin_values'), g.test('compute_builtin_values')     *)
(***************************************************************************)
kFragmentBuiltinValues ==
  << [builtin |-> "position", type |-> "vec4<f32>"],
     [builtin |-> "front_facing", type |-> "bool"],
     [builtin |-> "sample_index", type |-> "u32"],
     [builtin |-> "sample_mask", type |-> "u32"] >>

\* Mutant: num_workgroups is listed as non-uniform.
kComputeBuiltinValues_NumWorkgroups ==
  << [builtin |-> "local_invocation_id", type |-> "vec3<f32>", uniform |-> FALSE],
     [builtin |-> "local_invocation_index", type |-> "u32", uniform |-> FALSE],
     [builtin |-> "global_invocation_id", type |-> "vec3<u32>", uniform |-> FALSE],
     [builtin |-> "workgroup_id", type |-> "vec3<u32>", uniform |-> TRUE],
     [builtin |-> "num_workgroups", type |-> "vec3<u32>", uniform |-> FALSE] >>

kComputeBuiltinValues ==
  << [builtin |-> "local_invocation_id", type |-> "vec3<f32>", uniform |-> FALSE],
     [builtin |-> "local_invocation_index", type |-> "u32", uniform |-> FALSE],
     [builtin |-> "global_invocation_id", type |-> "vec3<u32>", uniform |-> FALSE],
     [builtin |-> "workgroup_id", type |-> "vec3<u32>", uniform |-> TRUE],
     [builtin |-> "num_workgroups", type |-> "vec3<u32>", uniform |-> TRUE] >>

\* The condition on the parameter p that the tests pick by p's type.
BuiltinCond(type) ==
  CASE type \in {"u32", "i32", "f32"} -> Bin(">", Var("p"), Lit)
    [] type \in {"vec3<u32>", "vec3<i32>", "vec3<f32>",
                 "vec4<u32>", "vec4<i32>", "vec4<f32>"} ->
         Bin(">", Member(Var("p"), "x"), Lit)
    [] type = "bool" -> Var("p")

FragmentBuiltinCode(builtin, type) ==
  << Let("p", Leaf("builtin", builtin)),
     If(BuiltinCond(type),
        <<Let("texel", Call("textureSample",
                            <<Leaf("handle", "tex"), Leaf("handle", "s"), Lit>>))>>,
        <<>>) >>

ComputeBuiltinCode(builtin, type) ==
  << Let("p", Leaf("builtin", builtin)),
     If(BuiltinCond(type), <<ExprStmt(Call("workgroupBarrier", <<>>))>>, <<>>) >>

\* Mutant: the first program is compiled as written, without the
\* diagnostic(off, derivative_uniformity) directive.
fragment_builtin_values_NoDirective ==
  \E b \in DOMAIN kFragmentBuiltinValues :
    LET code == FragmentBuiltinCode(kFragmentBuiltinValues[b].builtin,
                                    kFragmentBuiltinValues[b].type)
    IN  /\ test = "none"
        /\ test' = "fragment_builtin_values"
        /\ params' = [NoParams EXCEPT !.builtin = kFragmentBuiltinValues[b].builtin]
        /\ calls' = << expectCompileResult(TRUE, code, FALSE),
                       expectCompileResult(FALSE, code, FALSE) >>
        /\ post' = Summary(Analyze(code, FALSE))
        /\ program' = code
        /\ UNCHANGED checked

fragment_builtin_values ==
  \E b \in DOMAIN kFragmentBuiltinValues :
    LET code == FragmentBuiltinCode(kFragmentBuiltinValues[b].builtin,
                                    kFragmentBuiltinValues[b].type)
    IN  /\ test = "none"
        /\ test' = "fragment_builtin_values"
        /\ params' = [NoParams EXCEPT !.builtin = kFragmentBuiltinValues[b].builtin]
        /\ calls' = << expectCompileResult(TRUE, code, TRUE),
                       expectCompileResult(FALSE, code, FALSE) >>
        /\ post' = Summary(Analyze(code, FALSE))
        /\ program' = code
        /\ UNCHANGED checked

compute_builtin_values ==
  \E b \in DOMAIN kComputeBuiltinValues :
    LET code == ComputeBuiltinCode(kComputeBuiltinValues[b].builtin,
                                   kComputeBuiltinValues[b].type)
    IN  /\ test = "none"
        /\ test' = "compute_builtin_values"
        /\ params' = [NoParams EXCEPT !.builtin = kComputeBuiltinValues[b].builtin]
        /\ calls' = <<expectCompileResult(kComputeBuiltinValues[b].uniform, code, FALSE)>>
        /\ post' = Summary(Analyze(code, FALSE))
        /\ program' = code
        /\ UNCHANGED checked


(***************************************************************************)
(* g.test('pointers')                                                      *)
(***************************************************************************)
\* Mutant: the address check is never generated.
generatePointerCheck_OnlyContents(check) ==
  If(Bin(">", Var("test_val"), Lit),
     <<ExprStmt(Call("workgroupBarrier", <<>>))>>, <<>>)

generatePointerCheck(check) ==
  IF check = "address"
  THEN Let("tmp", Call("workgroupUniformLoad", <<Var("ptr")>>))
  ELSE If(Bin(">", Var("test_val"), Lit),
          <<ExprStmt(Call("workgroupBarrier", <<>>))>>, <<>>)

\* The module-scope declarations of the test.
wg_scalar == Leaf("workgroup", "wg_scalar")
wg_array == Leaf("workgroup", "wg_array")
wg_struct == Leaf("workgroup", "wg_struct")
\* Mutant: uniform_value is declared var<storage, read_write>.
uniform_value_ReadWrite == Leaf("storage_rw", "uniform_value")
uniform_value == Leaf("storage_ro", "uniform_value")
\* Mutant: nonuniform_value is declared var<storage> (read-only).
nonuniform_value_ReadOnly == Leaf("storage_ro", "nonuniform_value")
nonuniform_value == Leaf("storage_rw", "nonuniform_value")
func_scalar == Var("func_scalar")
PCase(code, check, uniform) == [code |-> code, check |-> check, uniform |-> uniform]
\* let p1 = &root.x; let p2 = &( *p1)[i1]; let p3 = &( *p2).x;
\* let p4 = &( *p3)[i2]; let p5 = &( *p4).x; let p6 = &( *p5)[i3];
Chain4(root, last, i1, i2) ==
  << Let("p1", AddrOf(Member(root, "x"))),
     Let("p2", AddrOf(Index(Deref(Var("p1")), i1))),
     Let("p3", AddrOf(Member(Deref(Var("p2")), "x"))),
     Let(last, AddrOf(Index(Deref(Var("p3")), i2))) >>
Chain6(root, i1, i2, i3) ==
  Chain4(root, "p4", i1, i2)
    \o << Let("p5", AddrOf(Member(Deref(Var("p4")), "x"))),
          Let("p6", AddrOf(Index(Deref(Var("p5")), i3))) >>
\* &func_struct.x[i1].x[i2].x[i3]
Path3(i1, i2, i3) ==
  AddrOf(Index(Member(Index(Member(Index(Member(Var("func_struct"), "x"), i1),
                                   "x"), i2), "x"), i3))
LidY == Member(Var("lid"), "y")
GidX == Member(Var("gid"), "x")

kPointerCases_address ==
  [address_uniform_literal |->
     PCase(<<Let("ptr", AddrOf(Index(wg_array, Lit)))>>, "address", TRUE),
   address_uniform_value |->
     PCase(<<Let("ptr", AddrOf(Index(wg_array, uniform_value)))>>, "address", TRUE),
   address_nonuniform_value |->
     PCase(<<Let("ptr", AddrOf(Index(wg_array, nonuniform_value)))>>, "address", FALSE),
   address_uniform_chain |->
     PCase(Chain4(wg_struct, "ptr", uniform_value, uniform_value), "address", TRUE),
   address_nonuniform_chain1 |->
     PCase(Chain4(wg_struct, "ptr", nonuniform_value, uniform_value), "address", FALSE),
   address_nonuniform_chain2 |->
     PCase(Chain4(wg_struct, "ptr", uniform_value, nonuniform_value), "address", FALSE),
   wg_uniform_load_is_uniform |->
     PCase(<<Let("test_val", Call("workgroupUniformLoad", <<AddrOf(wg_scalar)>>))>>,
           "contents", TRUE)]

kPointerCases_scalar ==
  [contents_scalar_uniform1 |->
     PCase(<<Let("ptr", AddrOf(func_scalar)),
             Let("test_val", Deref(Var("ptr")))>>, "contents", TRUE),
   contents_scalar_uniform2 |->
     PCase(<<Assign(func_scalar, nonuniform_value),
             Let("ptr", AddrOf(func_scalar)),
             Assign(func_scalar, Lit),
             Let("test_val", Deref(Var("ptr")))>>, "contents", TRUE),
   contents_scalar_uniform3 |->
     PCase(<<Let("ptr", AddrOf(func_scalar)),
             Assign(func_scalar, nonuniform_value),
             Assign(func_scalar, uniform_value),
             Let("test_val", Deref(Var("ptr")))>>, "contents", TRUE),
   contents_scalar_nonuniform1 |->
     PCase(<<Assign(func_scalar, nonuniform_value),
             Let("ptr", AddrOf(func_scalar)),
             Let("test_val", Deref(Var("ptr")))>>, "contents", FALSE),
   contents_scalar_nonuniform2 |->
     PCase(<<Let("ptr", AddrOf(func_scalar)),
             Assign(Deref(Var("ptr")), nonuniform_value),
             Let("test_val", Deref(Var("ptr")))>>, "contents", FALSE),
   contents_scalar_alias_uniform |->
     PCase(<<Let("p", AddrOf(func_scalar)),
             Let("ptr", Var("p")),
             Let("test_val", Deref(Var("ptr")))>>, "contents", TRUE),
   contents_scalar_alias_nonuniform1 |->
     PCase(<<Assign(func_scalar, nonuniform_value),
             Let("p", AddrOf(func_scalar)),
             Let("ptr", Var("p")),
             Let("test_val", Deref(Var("ptr")))>>, "contents", FALSE),
   contents_scalar_alias_nonuniform2 |->
     PCase(<<Let("p", AddrOf(func_scalar)),
             Assign(Deref(Var("p")), nonuniform_value),
             Let("ptr", Var("p")),
             Let("test_val", Deref(Var("ptr")))>>, "contents", FALSE),
   contents_scalar_alias_nonuniform3 |->
     PCase(<<Let("p", AddrOf(func_scalar)),
             Let("ptr", Var("p")),
             Assign(Deref(Var("p")), nonuniform_value),
             Let("test_val", Deref(Var("ptr")))>>, "contents", FALSE),
   contents_scalar_alias_nonuniform4 |->
     PCase(<<Let("p", AddrOf(func_scalar)),
             Assign(func_scalar, nonuniform_value),
             Let("test_val", Deref(Var("p")))>>, "contents", FALSE),
   contents_scalar_alias_nonuniform5 |->
     PCase(<<Let("p", AddrOf(func_scalar)),
             Assign(Deref(Var("p")), nonuniform_value),
             Let("test_val", func_scalar)>>, "contents", FALSE)]

kPointerCases_composite ==
  [contents_array_uniform_index |->
     PCase(<<Let("ptr", AddrOf(Index(Var("func_array"), uniform_value))),
             Let("test_val", Deref(Var("ptr")))>>, "contents", TRUE),
   contents_array_nonuniform_index1 |->
     PCase(<<Let("ptr", AddrOf(Index(Var("func_array"), nonuniform_value))),
             Let("test_val", Deref(Var("ptr")))>>, "contents", FALSE),
   contents_array_nonuniform_index2 |->
     PCase(<<Let("ptr", AddrOf(Index(Var("func_array"), Member(Var("lid"), "x")))),
             Let("test_val", Deref(Var("ptr")))>>, "contents", FALSE),
   contents_array_nonuniform_index3 |->
     PCase(<<Let("ptr", AddrOf(Index(Var("func_array"), GidX))),
             Let("test_val", Deref(Var("ptr")))>>, "contents", FALSE),
   contents_struct_uniform |->
     PCase(<<Let("p1", Path3(uniform_value, uniform_value, uniform_value)),
             Let("test_val", Deref(Var("p1")))>>, "contents", TRUE),
   contents_struct_nonuniform1 |->
     PCase(<<Let("p1", Path3(nonuniform_value, uniform_value, uniform_value)),
             Let("test_val", Deref(Var("p1")))>>, "contents", FALSE),
   contents_struct_nonuniform2 |->
     PCase(<<Let("p1", Path3(uniform_value, GidX, uniform_value)),
             Let("test_val", Deref(Var("p1")))>>, "contents", FALSE),
   contents_struct_nonuniform3 |->
     PCase(<<Let("p1", Path3(uniform_value, uniform_value, LidY)),
             Let("test_val", Deref(Var("p1")))>>, "contents", FALSE),
   contents_struct_chain_uniform |->
     PCase(Chain6(Var("func_struct"), uniform_value, uniform_value, uniform_value)
             \o <<Let("test_val", Deref(Var("p6")))>>, "contents", TRUE),
   contents_struct_chain_nonuniform1 |->
     PCase(Chain6(Var("func_struct"), nonuniform_value, uniform_value, uniform_value)
             \o <<Let("test_val", Deref(Var("p6")))>>, "contents", FALSE),
   contents_struct_chain_nonuniform2 |->
     PCase(Chain6(Var("func_struct"), uniform_value, GidX, uniform_value)
             \o <<Let("test_val", Deref(Var("p6")))>>, "contents", FALSE),
   contents_struct_chain_nonuniform3 |->
     PCase(Chain6(Var("func_struct"), uniform_value, uniform_value, LidY)
             \o <<Let("test_val", Deref(Var("p6")))>>, "contents", FALSE)]

kPointerCases ==
  kPointerCases_address @@ kPointerCases_scalar @@ kPointerCases_composite

\* The body of main() up to the case's code: the built-in parameters and the
\* function-scope variables.
PointerPrologue ==
  << Let("lid", Leaf("builtin", "local_invocation_id")),
     Let("gid", Leaf("builtin", "global_invocation_id")),
     VarDecl("func_scalar", NoExpr),
     VarDecl("func_array", NoExpr),
     VarDecl("func_struct", NoExpr) >>

PointerCode(case, withCheck) ==
  PointerPrologue \o kPointerCases[case].code
    \o (IF withCheck THEN <<generatePointerCheck(kPointerCases[case].check)>>
        ELSE <<>>)

pointers ==
  \E case \in keysOf(kPointerCases) :
    LET testcase == kPointerCases[case]
    IN  /\ test = "none"
        /\ test' = "pointers"
        /\ params' = [NoParams EXCEPT !.case = case]
        /\ calls' = (IF ~testcase.uniform
                     THEN <<expectCompileResult(TRUE, PointerCode(case, FALSE), FALSE)>>
                     ELSE <<>>)
                    \o <<expectCompileResult(testcase.uniform,
                                             PointerCode(case, TRUE), FALSE)>>
        /\ post' = Summary(Analyze(PointerCode(case, TRUE), FALSE))
        /\ program' = PointerCode(case, TRUE)
        /\ UNCHANGED checked


(***************************************************************************)
(* g.test('function_variables')                                            *)
(***************************************************************************)
\* Mutant: 'never' is treated like 'init'.
expectedUniformity_NeverAsInit(uniform, init) ==
  IF uniform = "always" THEN TRUE
  ELSE init = "no_init" \/ init = "uniform"

expectedUniformity(uniform, init) ==
  IF uniform = "always" THEN TRUE
  ELSE IF uniform = "init" THEN init = "no_init" \/ init = "uniform"
  ELSE FALSE

\* The module-scope declarations of the test and the usual fragments.
X == Var("x")
UV(i) == Index(Leaf("storage_ro", "uniform_value"), LitN(i))
NV(i) == Index(Leaf("storage_rw", "nonuniform_value"), LitN(i))
\* Mutant: uniform_cond is declared var<private>.
uniform_cond_Private == Leaf("private", "uniform_cond")
uniform_cond == Leaf("const", "uniform_cond")
\* Mutant: nonuniform_cond is declared as a module-scope const.
nonuniform_cond_Const == Leaf("const", "nonuniform_cond")
nonuniform_cond == Leaf("private", "nonuniform_cond")
uniform_val == Leaf("const", "uniform_val")
nonuniform_val == Leaf("private", "nonuniform_val")
XGt0 == Bin(">", X, Lit)
XxGt0 == Bin(">", Member(X, "x"), Lit)
True == Leaf("literal", "true")
\* if x > 0 { let tmp = textureSample(t, s, vec2f(0,0)); }
SampleIfX == If(XGt0, <<Let("tmp", TextureSampleCall)>>, <<>>)
Case(typename, assignment, cond, uniform) ==
  [typename |-> typename, assignment |-> assignment, cond |-> cond,
   uniform |-> uniform]

kFuncVarCases_simple ==
  [no_assign |-> Case("u32", <<>>, XGt0, "init"),
   simple_uniform |-> Case("u32", <<Assign(X, UV("0"))>>, XGt0, "always"),
   simple_nonuniform |-> Case("u32", <<Assign(X, NV("0"))>>, XGt0, "never")]

\* Mutant: compound_assign_uniform is expected Uniform whatever the
\* initialiser, as a plain assignment would be.
kFuncVarCases_compound_AsAssignment ==
  [compound_assign_uniform |->
     Case("u32", <<Compound(X, "+", UV("0"))>>, XGt0, "always"),
   compound_assign_nonuniform |->
     Case("u32", <<Compound(X, "-", NV("0"))>>, XGt0, "never")]

kFuncVarCases_compound ==
  [compound_assign_uniform |->
     Case("u32", <<Compound(X, "+", UV("0"))>>, XGt0, "init"),
   compound_assign_nonuniform |->
     Case("u32", <<Compound(X, "-", NV("0"))>>, XGt0, "never")]

\* Mutant: in unreachable_nonuniform the write precedes the break.
kFuncVarCases_unreachable_WriteFirst ==
  [unreachable_uniform |->
     Case("u32", <<Loop(<<Break, Assign(X, UV("0"))>>, <<>>, NoExpr)>>, XGt0, "init"),
   unreachable_nonuniform |->
     Case("u32", <<Loop(<<Assign(X, NV("0")), Break>>, <<>>, NoExpr)>>, XGt0, "init")]

kFuncVarCases_unreachable ==
  [unreachable_uniform |->
     Case("u32", <<Loop(<<Break, Assign(X, UV("0"))>>, <<>>, NoExpr)>>, XGt0, "init"),
   unreachable_nonuniform |->
     Case("u32", <<Loop(<<Break, Assign(X, NV("0"))>>, <<>>, NoExpr)>>, XGt0, "init")]

kFuncVarCases_if ==
  [if_no_else_uniform |->
     Case("u32", <<If(uniform_cond, <<Assign(X, UV("0"))>>, <<>>)>>, XGt0, "init"),
   if_no_else_nonuniform |->
     Case("u32", <<If(uniform_cond, <<Assign(X, NV("0"))>>, <<>>)>>, XGt0, "never"),
   if_no_then_uniform |->
     Case("u32", <<If(uniform_cond, <<>>, <<Assign(X, UV("0"))>>)>>, XGt0, "init"),
   if_no_then_nonuniform |->
     Case("u32", <<If(uniform_cond, <<>>, <<Assign(X, NV("0"))>>)>>, XGt0, "never"),
   if_else_uniform |->
     Case("u32", <<If(uniform_cond, <<Assign(X, UV("0"))>>, <<Assign(X, UV("1"))>>)>>,
          XGt0, "always"),
   if_else_nonuniform |->
     Case("u32", <<If(uniform_cond, <<Assign(X, NV("0"))>>, <<Assign(X, NV("1"))>>)>>,
          XGt0, "never"),
   if_else_split |->
     Case("u32", <<If(uniform_cond, <<Assign(X, UV("0"))>>, <<Assign(X, NV("0"))>>)>>,
          XGt0, "never"),
   if_unreachable_else_none |->
     Case("u32", <<If(uniform_cond, <<>>, <<Return>>)>>, XGt0, "init"),
   if_unreachable_else_uniform |->
     Case("u32", <<If(uniform_cond, <<Assign(X, UV("0"))>>, <<Return>>)>>,
          XGt0, "always"),
   if_unreachable_else_nonuniform |->
     Case("u32", <<If(uniform_cond, <<Assign(X, NV("0"))>>, <<Return>>)>>,
          XGt0, "never"),
   if_unreachable_then_none |->
     Case("u32", <<If(uniform_cond, <<Return>>, <<>>)>>, XGt0, "init"),
   if_unreachable_then_uniform |->
     Case("u32", <<If(uniform_cond, <<Return>>, <<Assign(X, UV("0"))>>)>>,
          XGt0, "always"),
   if_unreachable_then_nonuniform |->
     Case("u32", <<If(uniform_cond, <<Return>>, <<Assign(X, NV("0"))>>)>>,
          XGt0, "never"),
   if_nonescaping_nonuniform |->
     Case("u32", <<If(uniform_cond, <<Assign(X, NV("0")), Return>>, <<>>)>>,
          XGt0, "init")]

\* Mutant: loop_body_depends_on_continuing_nonuniform is expected to follow
\* the initialiser, as if the body never saw the continuing block's write.
kFuncVarCases_depends_on_continuing_EntryOnly ==
  [loop_body_depends_on_continuing_uniform |->
     Case("u32", <<Loop(<<SampleIfX>>, <<Assign(X, UV("0"))>>, uniform_cond)>>,
          True, "init"),
   loop_body_depends_on_continuing_nonuniform |->
     Case("u32", <<Loop(<<SampleIfX>>, <<Assign(X, NV("0"))>>, uniform_cond)>>,
          True, "init")]

kFuncVarCases_depends_on_continuing ==
  [loop_body_depends_on_continuing_uniform |->
     Case("u32", <<Loop(<<SampleIfX>>, <<Assign(X, UV("0"))>>, uniform_cond)>>,
          True, "init"),
   loop_body_depends_on_continuing_nonuniform |->
     Case("u32", <<Loop(<<SampleIfX>>, <<Assign(X, NV("0"))>>, uniform_cond)>>,
          True, "never")]

kFuncVarCases_loop ==
  [loop_body_uniform |->
     Case("u32", <<Loop(<<Assign(X, UV("0"))>>, <<>>, uniform_cond)>>, XGt0, "always"),
   loop_body_nonuniform |->
     Case("u32", <<Loop(<<Assign(X, NV("0"))>>, <<>>, uniform_cond)>>, XGt0, "never"),
   loop_body_nonuniform_cond |->
     Case("u32", <<Loop(<<Assign(X, UV("0"))>>, <<>>, nonuniform_cond)>>,
          XGt0, "never"),
   loop_unreachable_continuing |->
     Case("u32", <<Loop(<<Break>>, <<>>, uniform_cond)>>, XGt0, "init"),
   loop_continuing_from_body_uniform |->
     Case("u32", <<Loop(<<Assign(X, UV("0"))>>, <<SampleIfX>>, uniform_cond)>>,
          True, "always"),
   loop_continuing_from_body_nonuniform |->
     Case("u32", <<Loop(<<Assign(X, NV("0"))>>, <<SampleIfX>>, uniform_cond)>>,
          True, "never"),
   loop_continuing_from_body_split1 |->
     Case("u32",
          <<Loop(<<If(uniform_cond, <<Assign(X, UV("0"))>>, <<>>)>>,
                 <<SampleIfX>>, uniform_cond)>>,
          True, "init"),
   loop_continuing_from_body_split2 |->
     Case("u32",
          <<Loop(<<If(uniform_cond, <<Assign(X, NV("0"))>>, <<>>)>>,
                 <<SampleIfX>>, uniform_cond)>>,
          True, "never"),
   loop_continuing_from_body_split3 |->
     Case("u32",
          <<Loop(<<If(uniform_cond, <<Assign(X, UV("0"))>>, <<Assign(X, UV("1"))>>)>>,
                 <<SampleIfX>>, uniform_cond)>>,
          True, "always"),
   loop_continuing_from_body_split4 |->
     Case("u32",
          <<Loop(<<If(nonuniform_cond, <<Assign(X, UV("0"))>>, <<Assign(X, UV("1"))>>)>>,
                 <<SampleIfX>>, uniform_cond)>>,
          True, "never"),
   loop_continuing_from_body_split5 |->
     Case("u32",
          <<Loop(<<If(nonuniform_cond, <<Assign(X, UV("0"))>>, <<Assign(X, UV("0"))>>)>>,
                 <<SampleIfX>>, uniform_cond)>>,
          True, "never")]

\* Mutant: the Divergent execution of the inner loop's break persists after
\* the inner loop, so the later Uniform write is still rejected.
kFuncVarCases_loop_in_loop_Leaks ==
  [loop_in_loop_with_continue_uniform |->
     Case("u32",
          <<Loop(<<Loop(<<Assign(X, NV("0")),
                          If(nonuniform_cond, <<Break>>, <<>>),
                          Continue>>, <<>>, NoExpr),
                   Assign(X, UV("0"))>>,
                 <<SampleIfX>>, uniform_cond)>>,
          True, "never"),
   loop_in_loop_with_continue_nonuniform |->
     Case("u32",
          <<Loop(<<Loop(<<Assign(X, UV("0")),
                          If(uniform_cond, <<Break>>, <<>>),
                          Continue>>, <<>>, NoExpr),
                   Assign(X, NV("0"))>>,
                 <<SampleIfX>>, uniform_cond)>>,
          True, "never")]

kFuncVarCases_loop_in_loop ==
  [loop_in_loop_with_continue_uniform |->
     Case("u32",
          <<Loop(<<Loop(<<Assign(X, NV("0")),
                          If(nonuniform_cond, <<Break>>, <<>>),
                          Continue>>, <<>>, NoExpr),
                   Assign(X, UV("0"))>>,
                 <<SampleIfX>>, uniform_cond)>>,
          True, "always"),
   loop_in_loop_with_continue_nonuniform |->
     Case("u32",
          <<Loop(<<Loop(<<Assign(X, UV("0")),
                          If(uniform_cond, <<Break>>, <<>>),
                          Continue>>, <<>>, NoExpr),
                   Assign(X, NV("0"))>>,
                 <<SampleIfX>>, uniform_cond)>>,
          True, "never")]

\* Mutant: after_loop_with_uniform_breaks is expected Uniform whatever the
\* initialiser, as if the bare break contributed nothing.
kFuncVarCases_after_loop_BreaksAlways ==
  [after_loop_with_uniform_break_uniform |->
     Case("u32",
          <<Loop(<<If(uniform_cond, <<Assign(X, UV("0")), Break>>, <<>>)>>,
                 <<>>, NoExpr)>>,
          XGt0, "always"),
   after_loop_with_uniform_break_nonuniform |->
     Case("u32",
          <<Loop(<<If(uniform_cond, <<Assign(X, NV("0")), Break>>, <<>>)>>,
                 <<>>, NoExpr)>>,
          XGt0, "never"),
   after_loop_with_nonuniform_break |->
     Case("u32",
          <<Loop(<<If(nonuniform_cond, <<Assign(X, UV("0")), Break>>, <<>>)>>,
                 <<>>, NoExpr)>>,
          XGt0, "never"),
   after_loop_with_uniform_breaks |->
     Case("u32",
          <<Loop(<<If(uniform_cond, <<Assign(X, UV("0")), Break>>, <<Break>>)>>,
                 <<>>, NoExpr)>>,
          XGt0, "always")]

kFuncVarCases_after_loop ==
  [after_loop_with_uniform_break_uniform |->
     Case("u32",
          <<Loop(<<If(uniform_cond, <<Assign(X, UV("0")), Break>>, <<>>)>>,
                 <<>>, NoExpr)>>,
          XGt0, "always"),
   after_loop_with_uniform_break_nonuniform |->
     Case("u32",
          <<Loop(<<If(uniform_cond, <<Assign(X, NV("0")), Break>>, <<>>)>>,
                 <<>>, NoExpr)>>,
          XGt0, "never"),
   after_loop_with_nonuniform_break |->
     Case("u32",
          <<Loop(<<If(nonuniform_cond, <<Assign(X, UV("0")), Break>>, <<>>)>>,
                 <<>>, NoExpr)>>,
          XGt0, "never"),
   after_loop_with_uniform_breaks |->
     Case("u32",
          <<Loop(<<If(uniform_cond, <<Assign(X, UV("0")), Break>>, <<Break>>)>>,
                 <<>>, NoExpr)>>,
          XGt0, "init")]


kFuncVarCases_switch ==
  [switch_uniform_case |->
     Case("u32", <<Switch(uniform_val, << <<SampleIfX>>, <<>> >>)>>, True, "init"),
   switch_nonuniform_case |->
     Case("u32", <<Switch(nonuniform_val, << <<SampleIfX>>, <<>> >>)>>, True, "never")]

\* Mutant: after_switch_some_assign is expected Uniform whatever the
\* initialiser, as if a body without a write contributed nothing.
kFuncVarCases_after_switch_SomeAlways ==
  [after_switch_all_uniform |->
     Case("u32",
          <<Switch(uniform_val, << <<Assign(X, UV("0"))>>, <<Assign(X, UV("1"))>>,
                                   <<Assign(X, UV("2"))>> >>)>>,
          XGt0, "always"),
   after_switch_some_assign |->
     Case("u32",
          <<Switch(uniform_val, << <<Assign(X, UV("0"))>>, <<Assign(X, UV("1"))>>,
                                   <<>> >>)>>,
          XGt0, "always"),
   after_switch_nonuniform |->
     Case("u32",
          <<Switch(uniform_val, << <<Assign(X, UV("0"))>>, <<Assign(X, UV("1"))>>,
                                   <<Assign(X, NV("0"))>> >>)>>,
          XGt0, "never")]

kFuncVarCases_after_switch ==
  [after_switch_all_uniform |->
     Case("u32",
          <<Switch(uniform_val, << <<Assign(X, UV("0"))>>, <<Assign(X, UV("1"))>>,
                                   <<Assign(X, UV("2"))>> >>)>>,
          XGt0, "always"),
   after_switch_some_assign |->
     Case("u32",
          <<Switch(uniform_val, << <<Assign(X, UV("0"))>>, <<Assign(X, UV("1"))>>,
                                   <<>> >>)>>,
          XGt0, "init"),
   after_switch_nonuniform |->
     Case("u32",
          <<Switch(uniform_val, << <<Assign(X, UV("0"))>>, <<Assign(X, UV("1"))>>,
                                   <<Assign(X, NV("0"))>> >>)>>,
          XGt0, "never")]

\* Mutant: after_switch_with_break_nonuniform2 is expected Uniform, as if the
\* state at the break took no part in the join.
kFuncVarCases_switch_break_FallOffOnly ==
  [after_switch_with_break_nonuniform1 |->
     Case("u32",
          <<Switch(uniform_val,
                   << <<If(uniform_cond, <<Assign(X, UV("0")), Break>>, <<>>),
                        Assign(X, NV("0"))>> >>)>>,
          XGt0, "never"),
   after_switch_with_break_nonuniform2 |->
     Case("u32",
          <<Switch(uniform_val,
                   << <<Assign(X, UV("0")),
                        If(uniform_cond, <<Assign(X, NV("0")), Break>>, <<>>)>> >>)>>,
          XGt0, "always")]

kFuncVarCases_switch_break ==
  [after_switch_with_break_nonuniform1 |->
     Case("u32",
          <<Switch(uniform_val,
                   << <<If(uniform_cond, <<Assign(X, UV("0")), Break>>, <<>>),
                        Assign(X, NV("0"))>> >>)>>,
          XGt0, "never"),
   after_switch_with_break_nonuniform2 |->
     Case("u32",
          <<Switch(uniform_val,
                   << <<Assign(X, UV("0")),
                        If(uniform_cond, <<Assign(X, NV("0")), Break>>, <<>>)>> >>)>>,
          XGt0, "never")]

\* var i = 0;  i < 10;  i += 1
ForI == <<VarDecl("i", Lit)>>
ILt10 == Bin("<", Var("i"), LitN("10"))
IInc == <<Compound(Var("i"), "+", LitN("1"))>>

kFuncVarCases_for ==
  [for_loop_uniform_body |->
     Case("u32", <<For(ForI, ILt10, IInc, <<Assign(X, UV("0"))>>)>>, XGt0, "init"),
   for_loop_nonuniform_body |->
     Case("u32", <<For(ForI, ILt10, IInc, <<Assign(X, NV("0"))>>)>>, XGt0, "never"),
   for_loop_uniform_body_no_condition |->
     Case("u32",
          <<For(ForI, NoExpr, IInc,
                <<Assign(X, UV("0")), If(uniform_cond, <<Break>>, <<>>)>>)>>,
          XGt0, "always"),
   for_loop_nonuniform_body_no_condition |->
     Case("u32",
          <<For(ForI, NoExpr, IInc,
                <<Assign(X, NV("0")), If(uniform_cond, <<Break>>, <<>>)>>)>>,
          XGt0, "never"),
   for_loop_uniform_increment |->
     Case("u32", <<For(<<>>, uniform_cond, <<Compound(X, "+", UV("0"))>>, <<>>)>>,
          XGt0, "init"),
   for_loop_nonuniform_increment |->
     Case("u32", <<For(<<>>, uniform_cond, <<Compound(X, "+", NV("0"))>>, <<>>)>>,
          XGt0, "never"),
   for_loop_uniform_init |->
     Case("u32", <<For(<<Assign(X, UV("0"))>>, uniform_cond, <<>>, <<>>)>>,
          XGt0, "always"),
   for_loop_nonuniform_init |->
     Case("u32", <<For(<<Assign(X, NV("0"))>>, uniform_cond, <<>>, <<>>)>>,
          XGt0, "never")]

\* Mutant: while_loop_uniform_body is expected Uniform whatever the
\* initialiser, as if the body always ran.
kFuncVarCases_while_BodyAlwaysRuns ==
  [while_loop_uniform_body |->
     Case("u32", <<While(uniform_cond, <<Assign(X, UV("0"))>>)>>, XGt0, "always"),
   while_loop_nonuniform_body |->
     Case("u32", <<While(uniform_cond, <<Assign(X, NV("0"))>>)>>, XGt0, "never")]

kFuncVarCases_while ==
  [while_loop_uniform_body |->
     Case("u32", <<While(uniform_cond, <<Assign(X, UV("0"))>>)>>, XGt0, "init"),
   while_loop_nonuniform_body |->
     Case("u32", <<While(uniform_cond, <<Assign(X, NV("0"))>>)>>, XGt0, "never")]

kFuncVarCases_partial ==
  [partial_assignment_uniform |->
     Case("block", <<Assign(Member(X, "x"), Member(UV("0"), "x"))>>, XxGt0, "init"),
   partial_assignment_nonuniform |->
     Case("block", <<Assign(Member(X, "x"), Member(NV("0"), "x"))>>, XxGt0, "never")]

\* Mutant: writing every member of x one by one replaces the tag of x.
kFuncVarCases_partial_all_members_Replace ==
  [partial_assignment_all_members_uniform |->
     Case("block",
          <<Assign(Member(X, "x"), Member(UV("0"), "x")),
            Assign(Member(X, "y"), Member(UV("1"), "y"))>>,
          XxGt0, "always"),
   partial_assignment_all_members_nonuniform |->
     Case("block",
          <<Assign(Member(X, "x"), Member(NV("0"), "x")),
            Assign(Member(X, "y"), Member(UV("0"), "x"))>>,
          XxGt0, "never")]

kFuncVarCases_partial_all_members ==
  [partial_assignment_all_members_uniform |->
     Case("block",
          <<Assign(Member(X, "x"), Member(UV("0"), "x")),
            Assign(Member(X, "y"), Member(UV("1"), "y"))>>,
          XxGt0, "init"),
   partial_assignment_all_members_nonuniform |->
     Case("block",
          <<Assign(Member(X, "x"), Member(NV("0"), "x")),
            Assign(Member(X, "y"), Member(UV("0"), "x"))>>,
          XxGt0, "never")]

\* Mutant: the only member of x carries its own tag, replaced by each write.
kFuncVarCases_partial_single_element_OwnTag ==
  [partial_assignment_single_element_struct_uniform |->
     Case("block", <<Assign(Member(X, "x"), Member(UV("0"), "x"))>>, XxGt0, "always"),
   partial_assignment_single_element_struct_nonuniform |->
     Case("block", <<Assign(Member(X, "x"), Member(NV("0"), "x"))>>, XxGt0, "never"),
   partial_assignment_single_element_array_uniform |->
     Case("array<u32, 1>", <<Assign(Index(X, Lit), Index(UV("0"), Lit))>>,
          Bin(">", Index(X, Lit), Lit), "always"),
   partial_assignment_single_element_array_nonuniform |->
     Case("array<u32, 1>", <<Assign(Index(X, Lit), Index(NV("0"), Lit))>>,
          Bin(">", Index(X, Lit), Lit), "never")]

kFuncVarCases_partial_single_element ==
  [partial_assignment_single_element_struct_uniform |->
     Case("block", <<Assign(Member(X, "x"), Member(UV("0"), "x"))>>, XxGt0, "init"),
   partial_assignment_single_element_struct_nonuniform |->
     Case("block", <<Assign(Member(X, "x"), Member(NV("0"), "x"))>>, XxGt0, "never"),
   partial_assignment_single_element_array_uniform |->
     Case("array<u32, 1>", <<Assign(Index(X, Lit), Index(UV("0"), Lit))>>,
          Bin(">", Index(X, Lit), Lit), "init"),
   partial_assignment_single_element_array_nonuniform |->
     Case("array<u32, 1>", <<Assign(Index(X, Lit), Index(NV("0"), Lit))>>,
          Bin(">", Index(X, Lit), Lit), "never")]

\* The members (typedecl) or elements (typename) of the type of x in the
\* partial assignment cases.
typedecl ==
  [partial_assignment_uniform |-> {"x", "y"},
   partial_assignment_nonuniform |-> {"x", "y"},
   partial_assignment_all_members_uniform |-> {"x", "y"},
   partial_assignment_all_members_nonuniform |-> {"x", "y"},
   partial_assignment_single_element_struct_uniform |-> {"x"},
   partial_assignment_single_element_struct_nonuniform |-> {"x"},
   partial_assignment_single_element_array_uniform |-> {"0"},
   partial_assignment_single_element_array_nonuniform |-> {"0"}]

kFuncVarCases_nested ==
  [nested1 |->
     Case("block",
          <<For(<<>>, uniform_cond, <<>>,
                <<If(uniform_cond,
                     <<Assign(X, UV("0")), Break,
                       Assign(Member(X, "y"), Member(NV("0"), "y"))>>,
                     <<If(uniform_cond, <<Continue>>, <<>>),
                       Assign(X, UV("1"))>>)>>)>>,
          XxGt0, "init"),
   nested2 |->
     Case("block",
          <<For(<<>>, uniform_cond, <<>>,
                <<If(uniform_cond,
                     <<Assign(X, UV("0")), Break,
                       Assign(Member(X, "y"), Member(NV("0"), "y"))>>,
                     <<If(nonuniform_cond, <<Continue>>, <<>>),
                       Assign(X, UV("1"))>>)>>)>>,
          XxGt0, "never")]

kFuncVarCases ==
  kFuncVarCases_simple @@ kFuncVarCases_compound @@ kFuncVarCases_unreachable
    @@ kFuncVarCases_if
    @@ kFuncVarCases_depends_on_continuing @@ kFuncVarCases_loop
    @@ kFuncVarCases_loop_in_loop
    @@ kFuncVarCases_after_loop
    @@ kFuncVarCases_switch @@ kFuncVarCases_after_switch
    @@ kFuncVarCases_switch_break @@ kFuncVarCases_for @@ kFuncVarCases_while
    @@ kFuncVarCases_partial @@ kFuncVarCases_partial_all_members
    @@ kFuncVarCases_partial_single_element
    @@ kFuncVarCases_nested

\* Mutant: a variable declared without initialiser starts from a read-write
\* storage value.
kVarInit_NoInitNonuniform ==
  [no_init |-> NV("3"), uniform |-> UV("3"), nonuniform |-> NV("3")]

kVarInit ==
  [no_init |-> NoExpr, uniform |-> UV("3"), nonuniform |-> NV("3")]

\* The body of main() for one case and one initialiser of x.
FuncVarCode(case, init) ==
  <<VarDecl("x", kVarInit[init])>>
    \o kFuncVarCases[case].assignment
    \o <<If(kFuncVarCases[case].cond, <<Let("tmp", TextureSampleCall)>>, <<>>)>>

function_variables ==
  \E case \in keysOf(kFuncVarCases), init \in keysOf(kVarInit) :
    LET code == FuncVarCode(case, init)
        result == expectedUniformity(kFuncVarCases[case].uniform, init)
    IN  /\ test = "none"
        /\ test' = "function_variables"
        /\ params' = [NoParams EXCEPT !.case = case, !.init = init]
        /\ calls' = (IF ~result THEN <<expectCompileResult(TRUE, code, TRUE)>>
                     ELSE <<>>)
                    \o <<expectCompileResult(result, code, FALSE)>>
        /\ post' = Summary(Analyze(code, FALSE))
        /\ program' = code
        /\ UNCHANGED checked


(***************************************************************************)
(* g.test('short_circuit_expressions')                                     *)
(***************************************************************************)
\* if x { let tmp = textureSample(t, s, vec2f(0,0)); }
SampleIfXBool == If(X, <<Let("tmp", TextureSampleCall)>>, <<>>)
\* textureSample(t, s, vec2f(0,0)).x == 0
SampleEqZero == EqZero(Member(TextureSampleCall, "x"))
SCase(code, uniform) == [code |-> code, uniform |-> uniform]

\* Mutant: the verdict of `uniform_cond || nonuniform_cond` follows the first
\* operand only.
kShortCircuitExpressionCases_or_FirstOperandOnly ==
  [or_uniform_uniform |->
     SCase(<<Let("x", ShortCircuit("||", uniform_cond, uniform_cond)), SampleIfXBool>>,
           TRUE),
   or_uniform_nonuniform |->
     SCase(<<Let("x", ShortCircuit("||", uniform_cond, nonuniform_cond)), SampleIfXBool>>,
           TRUE),
   or_nonuniform_uniform |->
     SCase(<<Let("x", ShortCircuit("||", nonuniform_cond, uniform_cond)), SampleIfXBool>>,
           FALSE),
   or_nonuniform_nonuniform |->
     SCase(<<Let("x", ShortCircuit("||", nonuniform_cond, nonuniform_cond)),
             SampleIfXBool>>, FALSE)]

\* or_uniform_uniform .. or_nonuniform_nonuniform
kShortCircuitExpressionCases_or ==
  [or_uniform_uniform |->
     SCase(<<Let("x", ShortCircuit("||", uniform_cond, uniform_cond)), SampleIfXBool>>,
           TRUE),
   or_uniform_nonuniform |->
     SCase(<<Let("x", ShortCircuit("||", uniform_cond, nonuniform_cond)), SampleIfXBool>>,
           FALSE),
   or_nonuniform_uniform |->
     SCase(<<Let("x", ShortCircuit("||", nonuniform_cond, uniform_cond)), SampleIfXBool>>,
           FALSE),
   or_nonuniform_nonuniform |->
     SCase(<<Let("x", ShortCircuit("||", nonuniform_cond, nonuniform_cond)),
             SampleIfXBool>>, FALSE)]

\* or_uniform_first_nonuniform, or_uniform_second_nonuniform
kShortCircuitExpressionCases_or_side_effect ==
  [or_uniform_first_nonuniform |->
     SCase(<<Let("x", ShortCircuit("||", SampleEqZero, nonuniform_cond))>>, TRUE),
   or_uniform_second_nonuniform |->
     SCase(<<Let("x", ShortCircuit("||", nonuniform_cond, SampleEqZero))>>, FALSE)]

\* and_uniform_uniform .. and_nonuniform_nonuniform
kShortCircuitExpressionCases_and ==
  [and_uniform_uniform |->
     SCase(<<Let("x", ShortCircuit("&&", uniform_cond, uniform_cond)), SampleIfXBool>>,
           TRUE),
   and_uniform_nonuniform |->
     SCase(<<Let("x", ShortCircuit("&&", uniform_cond, nonuniform_cond)), SampleIfXBool>>,
           FALSE),
   and_nonuniform_uniform |->
     SCase(<<Let("x", ShortCircuit("&&", nonuniform_cond, uniform_cond)), SampleIfXBool>>,
           FALSE),
   and_nonuniform_nonuniform |->
     SCase(<<Let("x", ShortCircuit("&&", nonuniform_cond, nonuniform_cond)),
             SampleIfXBool>>, FALSE)]

\* Mutant: the verdict does not depend on the order of the operands of `&&`.
kShortCircuitExpressionCases_and_side_effect_Commutative ==
  [and_uniform_first_nonuniform |->
     SCase(<<Let("x", ShortCircuit("&&", SampleEqZero, nonuniform_cond))>>, TRUE),
   and_uniform_second_nonuniform |->
     SCase(<<Let("x", ShortCircuit("&&", nonuniform_cond, SampleEqZero))>>, TRUE)]

\* and_uniform_first_nonuniform, and_uniform_second_nonuniform
kShortCircuitExpressionCases_and_side_effect ==
  [and_uniform_first_nonuniform |->
     SCase(<<Let("x", ShortCircuit("&&", SampleEqZero, nonuniform_cond))>>, TRUE),
   and_uniform_second_nonuniform |->
     SCase(<<Let("x", ShortCircuit("&&", nonuniform_cond, SampleEqZero))>>, FALSE)]

kShortCircuitExpressionCases ==
  kShortCircuitExpressionCases_or @@ kShortCircuitExpressionCases_or_side_effect
  @@ kShortCircuitExpressionCases_and @@ kShortCircuitExpressionCases_and_side_effect

short_circuit_expressions ==
  \E case \in keysOf(kShortCircuitExpressionCases) :
    LET testcase == kShortCircuitExpressionCases[case]
        res == testcase.uniform
    IN  /\ test = "none"
        /\ test' = "short_circuit_expressions"
        /\ params' = [NoParams EXCEPT !.case = case]
        /\ calls' = (IF ~res THEN <<expectCompileResult(TRUE, testcase.code, TRUE)>>
                     ELSE <<>>)
                    \o <<expectCompileResult(res, testcase.code, FALSE)>>
        /\ post' = Summary(Analyze(testcase.code, FALSE))
        /\ program' = testcase.code
        /\ UNCHANGED checked

(***************************************************************************)
(* g.test('binary_expressions'), g.test('unary_expressions')               *)
(***************************************************************************)
ECase(code, uniform) == [code |-> code, uniform |-> uniform]

\* In these two tests uniform_* are module-scope const declarations and
\* nonuniform_* are var<private> declarations.
kExpressionCases ==
  [literal |-> ECase(LitN("1u"), TRUE),
   uniform |-> ECase(Leaf("const", "uniform_val"), TRUE),
   nonuniform |-> ECase(Leaf("private", "nonuniform_val"), FALSE),
   uniform_index |->
     ECase(Index(Leaf("const", "uniform_value"), Leaf("const", "uniform_val")), TRUE),
   nonuniform_index1 |->
     ECase(Index(Leaf("const", "uniform_value"), Leaf("private", "nonuniform_val")),
           FALSE),
   nonuniform_index2 |->
     ECase(Index(Leaf("private", "nonuniform_value"), Leaf("const", "uniform_val")),
           FALSE),
   uniform_struct |-> ECase(Member(Leaf("const", "uniform_struct"), "x"), TRUE),
   nonuniform_struct |-> ECase(Member(Leaf("private", "nonuniform_struct"), "x"), FALSE)]

BinOp(code, tst) == [code |-> code, test |-> tst]

kBinOps ==
  [plus |-> BinOp("+", "> 0"), minus |-> BinOp("-", "> 0"),
   times |-> BinOp("*", "> 0"), div |-> BinOp("/", "> 0"),
   rem |-> BinOp("%", "> 0"), and |-> BinOp("&", "> 0"),
   or |-> BinOp("|", "> 0"), xor |-> BinOp("^", "> 0"),
   shl |-> BinOp("<<", "> 0"), shr |-> BinOp(">>", "> 0"),
   less |-> BinOp("<", ""), lessequal |-> BinOp("<=", ""),
   greater |-> BinOp(">", ""), greaterequal |-> BinOp(">=", ""),
   equal |-> BinOp("==", ""), notequal |-> BinOp("!=", "")]

\* if tmp <test> { let res = textureSample(t, s, vec2f(0,0)); }
SampleIfTmp(tst) ==
  If(IF tst = "" THEN Var("tmp") ELSE Bin(">", Var("tmp"), Lit),
     <<Let("res", TextureSampleCall)>>, <<>>)

\* Mutant: the first operand is used on both sides of the operator.
BinaryCode_SameOperand(e1, e2, op) ==
  << Let("tmp", Bin(kBinOps[op].code, kExpressionCases[e1].code,
                    kExpressionCases[e1].code)),
     SampleIfTmp(kBinOps[op].test) >>

BinaryCode(e1, e2, op) ==
  << Let("tmp", Bin(kBinOps[op].code, kExpressionCases[e1].code,
                    kExpressionCases[e2].code)),
     SampleIfTmp(kBinOps[op].test) >>

binary_expressions ==
  \E e1 \in keysOf(kExpressionCases), e2 \in keysOf(kExpressionCases),
     op \in keysOf(kBinOps) :
    LET code == BinaryCode(e1, e2, op)
        res == kExpressionCases[e1].uniform /\ kExpressionCases[e2].uniform
    IN  /\ test = "none"
        /\ test' = "binary_expressions"
        /\ params' = [NoParams EXCEPT !.e1 = e1, !.e2 = e2, !.op = op]
        /\ calls' = (IF ~res THEN <<expectCompileResult(TRUE, code, TRUE)>> ELSE <<>>)
                    \o <<expectCompileResult(res, code, FALSE)>>
        /\ post' = Summary(Analyze(code, FALSE))
        /\ program' = code
        /\ UNCHANGED checked

kUnaryOps == {"!b_tmp", "~i_tmp > 0", "-i32(i_tmp) > 0"}

UnaryExpr(op) ==
  CASE op = "!b_tmp" -> Un("!", Var("b_tmp"))
    [] op = "~i_tmp > 0" -> Bin(">", Un("~", Var("i_tmp")), Lit)
    [] op = "-i32(i_tmp) > 0" -> Bin(">", Un("-", Un("i32", Var("i_tmp"))), Lit)

UnaryCode(e, op) ==
  << Let("i_tmp", kExpressionCases[e].code),
     Let("b_tmp", Un("bool", Var("i_tmp"))),
     Let("tmp", UnaryExpr(op)),
     SampleIfTmp("") >>

unary_expressions ==
  \E e \in keysOf(kExpressionCases), op \in kUnaryOps :
    LET code == UnaryCode(e, op)
        res == kExpressionCases[e].uniform
    IN  /\ test = "none"
        /\ test' = "unary_expressions"
        /\ params' = [NoParams EXCEPT !.e1 = e, !.op = op]
        /\ calls' = (IF ~res THEN <<expectCompileResult(TRUE, code, TRUE)>> ELSE <<>>)
                    \o <<expectCompileResult(res, code, FALSE)>>
        /\ post' = Summary(Analyze(code, FALSE))
        /\ program' = code
        /\ UNCHANGED checked


(***************************************************************************)
(* Specification                                                           *)
(***************************************************************************)
Init ==
  /\ test = "none"
  /\ params = NoParams
  /\ calls = <<>>
  /\ post = Summary(Analyze(<<>>, FALSE))
  /\ program = <<>>
  /\ checked = NoCheck

Next ==
  \/ basics
  \/ fragment_builtin_values
  \/ compute_builtin_values
  \/ pointers
  \/ function_variables
  \/ short_circuit_expressions
  \/ binary_expressions
  \/ unary_expressions

Spec == Init /\ [][Next]_vars

\* Every expectCompileResult call of the test run agrees with the compiler.
TestPasses == \A i \in DOMAIN calls : calls[i].accepted = calls[i].expected

(***************************************************************************)
(* The analysis pass on its own                                            *)
(*                                                                         *)
(* The tests above run the analysis only on the programs of their tables.  *)
(* AnalysisSpec runs it on every program of a bounded family of function   *)
(* bodies over two variables x and i: straight-line code, an if, a loop    *)
(* with a continuing block, and a loop nested in a loop.                   *)
(***************************************************************************)
\* if v > 0 { workgroupBarrier(); }
BarrierIf(v) ==
  If(Bin(">", Var(v), Lit), <<ExprStmt(Call("workgroupBarrier", <<>>))>>, <<>>)

\* The statements the bodies are built from.
Stmts ==
  { Assign(X, NV("0")), Assign(X, UV("0")), Assign(Var("i"), X),
    BarrierIf("x"), BarrierIf("i") }

\* if nonuniform_cond { break; }
BreakIfNonuniform == If(nonuniform_cond, <<Break>>, <<>>)

Conds == {uniform_cond, nonuniform_cond}

\* var x : u32; var i : u32;
Decls == <<VarDecl("x", NoExpr), VarDecl("i", NoExpr)>>

SeqPrograms ==
  {Decls \o <<a, b, c>> : a, b, c \in Stmts \cup {SampleIfX}}

IfPrograms ==
  {Decls \o <<a, If(c, <<t>>, <<e>>), BarrierIf("x"), BarrierIf("i")>> :
     a \in Stmts, c \in Conds, t \in Stmts, e \in Stmts}

LoopPrograms ==
  {Decls \o <<pre, Loop(<<a, b>>, <<c>>, brk), BarrierIf("x")>> :
     pre \in {Assign(X, NV("0")), Assign(X, UV("0"))},
     a \in Stmts \cup {BreakIfNonuniform}, b \in Stmts \cup {BreakIfNonuniform},
     c \in Stmts, brk \in Conds}

NestedStmts == Stmts \ {Assign(X, UV("0"))}

NestedPrograms ==
  {Decls \o <<Loop(<<a, Loop(<<b>>, <<c>>, uniform_cond)>>, <<d>>, uniform_cond)>> :
     a \in NestedStmts, b \in NestedStmts, c \in NestedStmts, d \in NestedStmts}

Programs == SeqPrograms \cup IfPrograms \cup LoopPrograms \cup NestedPrograms

\* One run of the analysis on one function body.
analyze ==
  \E p \in Programs :
    /\ test = "none"
    /\ test' = "analyze"
    /\ params' = NoParams
    /\ calls' = <<expectCompileResult(Compiles(p, FALSE), p, FALSE)>>
    /\ post' = Summary(Analyze(p, FALSE))
    /\ program' = p
    /\ UNCHANGED checked

AnalysisNext == analyze

AnalysisSpec == Init /\ [][AnalysisNext]_vars

(***************************************************************************)
(* The result checks of the execution tests                                *)
(*                                                                         *)
(* checkDataTypes, checkBroadcastCompute and checkFragment are pure        *)
(* functions of the buffers a device wrote.  ChecksSpec applies each of    *)
(* them to buffers drawn from bounded families: the buffers a correct      *)
(* device writes, and buffers that differ from those in a few words.       *)
(***************************************************************************)
\* A Uint32Array is a function on 0..(length - 1).
Length(arr) == Cardinality(DOMAIN arr)

\* The least element of a non-empty set of integers: the first index at
\* which a loop over increasing indices stops.
First(S) == CHOOSE k \in S : \A m \in S : k <= m

NoError == [error |-> FALSE]
Error(at, expected, got) ==
  [error |-> TRUE, at |-> at, expected |-> expected, got |-> got]

\* A 32-bit word of a Uint32Array of data_types, as its two 16-bit halves.
U32(hi, lo) == [hi |-> hi, lo |-> lo]

\* x >> 16 on a 32-bit word: ToInt32, then a sign-propagating shift.
ShiftRight16(x) == U32(IF x.hi >= 32768 THEN 65535 ELSE 0, x.hi)
\* x & 0xffff
Low16(x) == U32(0, x.lo)

\* A type of kTypes: whether it needs f16, and its width (1 for a scalar).
Type(f16, width) == [f16 |-> f16, width |-> width]
requiresF16(type) == type.f16
isVectorType(type) == type.width > 1

kTypes ==
  {Type(f16, width) : f16 \in BOOLEAN, width \in 1..4}

\* uints / uintsPerOutput: the 32-bit words of one element.
uintsOf(type) ==
  IF isVectorType(type)
  THEN LET uints == IF type.width = 3 THEN 4 ELSE type.width
       IN  IF requiresF16(type) THEN uints \div 2 ELSE uints
  ELSE 1

\* Mutant: the shift is left out, every element is read from the low half.
half_NoShift(arr, i) ==
  Low16(arr[i \div 2])

\* The 16-bit half of element i of an array of packed f16 scalars.
half(arr, i) ==
  LET word == arr[i \div 2]
  IN  Low16(IF i % 2 = 1 THEN ShiftRight16(word) ELSE word)

checkDataTypes(output, input, broadcast, type) ==
  IF requiresF16(type) /\ ~isVectorType(type)
  THEN LET expect == half(input, broadcast)
           bad == {i \in 0..3 : half(output, i) # expect}
       IN  IF bad = {} THEN NoError
           ELSE Error(First(bad), expect, half(output, First(bad)))
  ELSE LET uints == uintsOf(type)
           bad == {k \in 0..(4 * uints - 1) :
                     output[k] # input[broadcast * uints + (k % uints)]}
       IN  IF bad = {} THEN NoError
           ELSE Error(First(bad),
                      input[broadcast * uints + (First(bad) % uints)],
                      output[First(bad)])

\* The words of the input buffer of data_types: one per word of the four
\* elements (two for four packed f16 scalars), all elements different, some
\* with the top bit of a half set.
wordsOf(type) ==
  IF requiresF16(type) /\ ~isVectorType(type) THEN 2 ELSE 4 * uintsOf(type)

generateTypedInputs(type) ==
  { [k \in 0..(wordsOf(type) - 1) |-> U32(2 * k + 2, 2 * k + 1)],
    [k \in 0..(wordsOf(type) - 1) |-> U32(40000 + 2 * k, 50000 + k)] }

\* What a device that broadcasts correctly writes.
broadcastOutput(input, broadcast, type) ==
  IF requiresF16(type) /\ ~isVectorType(type)
  THEN LET word == input[broadcast \div 2]
           h == IF broadcast % 2 = 1 THEN word.hi ELSE word.lo
       IN  [k \in 0..1 |-> U32(h, h)]
  ELSE [k \in 0..(wordsOf(type) - 1) |->
          input[broadcast * uintsOf(type) + (k % uintsOf(type))]]

\* The array with d added to word k, if k is one of its words.
Corrupt(arr, k, d) ==
  [j \in DOMAIN arr |-> IF j = k THEN arr[j] + d ELSE arr[j]]

\* Word differences a faulty device may produce: none, in the low half, in
\* the high half.
Faults == {"none", "low", "high"}

CorruptWord(arr, k, fault) ==
  [j \in DOMAIN arr |->
     IF j # k THEN arr[j]
     ELSE CASE fault = "none" -> arr[j]
            [] fault = "low" -> U32(arr[j].hi, (arr[j].lo + 1) % 65536)
            [] fault = "high" -> U32((arr[j].hi + 1) % 65536, arr[j].lo)]

\* g.test('data_types'): the check of what the device wrote.
data_types ==
  \E type \in kTypes, id \in 0..3 :
    \E inputData \in generateTypedInputs(type) :
      \E k \in 0..(wordsOf(type) - 1), d \in Faults :
        LET output == CorruptWord(broadcastOutput(inputData, id, type), k, d)
        IN  /\ test = "none" /\ checked = NoCheck
            /\ checked' = [fn |-> "checkDataTypes", type |-> type, broadcast |-> id,
                         input |-> inputData, output |-> output,
                         result |-> checkDataTypes(output, inputData, id, type)]
            /\ UNCHANGED <<test, params, calls, post, program>>

\* The value every result slot holds before the shader runs.
kDataSentinel == 999

\* The filters of the predicate cases the compute tests use; "all_active" is
\* the functor compute,all_active passes.
kPredicateCases ==
  {"lower_half", "upper_half"}

filter(predicate, id, size) ==
  CASE predicate = "all_active" -> TRUE
    [] predicate = "lower_half" -> id < size \div 2
    [] predicate = "upper_half" -> id >= size \div 2

\* quad[q]: the last invocation j of i's subgroup and quad whose subgroup
\* invocation id is q modulo 4, or -1 when there is none.
quadOf(metadata, output, bound, i) ==
  [q \in 0..3 |->
     LET js == {j \in 0..(bound - 1) :
                  /\ output[bound + j] = output[bound + i]
                  /\ metadata[i] \div 4 = metadata[j] \div 4
                  /\ metadata[j] % 4 = q}
     IN  IF js = {} THEN -1 ELSE CHOOSE j \in js : \A m \in js : m <= j]

checkBroadcastCompute(metadata, output, broadcast, predicate) ==
  LET bound == Length(output) \div 2
      inactive(i) == ~filter(predicate, metadata[i], metadata[bound + i])
      missing(i) == {q \in 0..3 : quadOf(metadata, output, bound, i)[q] = -1}
      differ(i) ==
        LET quad == quadOf(metadata, output, bound, i)
        IN  {q \in 0..3 : output[quad[q]] # output[quad[broadcast]]}
      bad == {i \in 0..(bound - 1) :
                IF inactive(i) THEN output[i] # kDataSentinel
                ELSE missing(i) # {} \/ differ(i) # {}}
  IN  IF bad = {} THEN NoError
      ELSE LET i == First(bad)
               quad == quadOf(metadata, output, bound, i)
           IN  IF inactive(i) THEN Error(i, kDataSentinel, output[i])
               ELSE IF missing(i) # {} THEN Error(i, First(missing(i)), -1)
               ELSE Error(i, output[quad[broadcast]],
                          output[quad[First(differ(i))]])

\* Workgroup sizes (threads, a multiple of 4) and subgroup sizes.
WgThreads == {4, 8}
SubgroupSizes == {4, 8}

\* The subgroup invocation id of local invocation lid: subgroups are runs of
\* `size` consecutive invocations, numbered upwards or downwards.
invocationId(lid, size, upwards) ==
  IF upwards THEN lid % size ELSE size - 1 - (lid % size)

\* What the shader's metadata writes hold: ids, then subgroup sizes.
Metadata(wgThreads, size, upwards) ==
  [k \in 0..(2 * wgThreads - 1) |->
     IF k < wgThreads THEN invocationId(k, size, upwards)
     ELSE size]

\* The local index of the invocation at quad position q of lid's quad.
quadMember(metadata, wgThreads, size, lid, q) ==
  CHOOSE j \in 0..(wgThreads - 1) :
    /\ j \div size = lid \div size
    /\ metadata[j] \div 4 = metadata[lid] \div 4
    /\ metadata[j] % 4 = q

\* What a device that broadcasts correctly writes: results (the sentinel
\* where the predicate is false), then subgroupBroadcastFirst(lid + 1).
Output(metadata, wgThreads, size, broadcast, predicate) ==
  [k \in 0..(2 * wgThreads - 1) |->
     IF k < wgThreads
     THEN IF filter(predicate, metadata[k], metadata[wgThreads + k])
          THEN quadMember(metadata, wgThreads, size, k, broadcast)
          ELSE kDataSentinel
     ELSE ((k - wgThreads) \div size) * size + 1]

\* Every active result raised by d: a device whose quadBroadcast returns a
\* value other than the one broadcast, the same for all four of a quad.
Shifted(metadata, output, bound, predicate, d) ==
  [k \in DOMAIN output |->
     IF k < bound /\ filter(predicate, metadata[k], metadata[bound + k])
     THEN output[k] + d ELSE output[k]]

\* The check of what the device wrote, for either compute test.
runComputeTest(fn, predicate) ==
  \E wgThreads \in WgThreads, size \in SubgroupSizes, upwards \in BOOLEAN, id \in 0..3 :
    \E k \in 0..(wgThreads - 1), d \in {0, 1}, all \in {0, 1} :
      LET metadata == Metadata(wgThreads, size, upwards)
          output == Shifted(metadata,
                            Corrupt(Output(metadata, wgThreads, size, id, predicate), k, d),
                            wgThreads, predicate, all)
      IN  /\ test = "none" /\ checked = NoCheck
          /\ checked' = [fn |-> fn, predicate |-> predicate, broadcast |-> id,
                         metadata |-> metadata, output |-> output,
                         result |-> checkBroadcastCompute(metadata, output, id, predicate)]
          /\ UNCHANGED <<test, params, calls, post, program>>

\* g.test('compute,all_active')
compute_all_active == runComputeTest("compute,all_active", "all_active")

\* g.test('compute,split')
compute_split ==
  \E predicate \in kPredicateCases : runComputeTest("compute,split", predicate)

\* The words of one texel and of one row of the read-back buffer: rows are
\* padded to a multiple of 256 bytes, a texel of rgba32uint is four words.
getUintsPerFramebuffer(format, width, height) ==
  [uintsPerRow |-> 64 * ((width * 16 + 255) \div 256), uintsPerTexel |-> 4]

coordToIndex(format, width, height, row, col) ==
  LET u == getUintsPerFramebuffer(format, width, height)
  IN  u.uintsPerRow * row + col * u.uintsPerTexel

\* Whether the loop body of checkFragment skips pixel (row, col).
skipped(width, height, row, col) ==
  LET max_row == IF row % 2 = 1 THEN row ELSE row + 1
      max_col == IF col % 2 = 1 THEN col ELSE col + 1
  IN  max_row = height - 1 \/ max_col = width - 1

expect_row(broadcast, row) ==
  CASE broadcast = 0 -> IF row % 2 = 1 THEN row - 1 ELSE row
    [] broadcast = 1 -> IF row % 2 = 1 THEN row - 1 ELSE row
    [] broadcast = 2 -> IF row % 2 = 1 THEN row ELSE row + 1
    [] broadcast = 3 -> IF row % 2 = 1 THEN row ELSE row + 1

\* Mutant: the expected column is the pixel's own column.
expect_col_Own(broadcast, col) == col

expect_col(broadcast, col) ==
  CASE broadcast = 0 -> IF col % 2 = 1 THEN col - 1 ELSE col
    [] broadcast = 1 -> IF col % 2 = 1 THEN col ELSE col + 1
    [] broadcast = 2 -> IF col % 2 = 1 THEN col - 1 ELSE col
    [] broadcast = 3 -> IF col % 2 = 1 THEN col ELSE col + 1

checkFragment(data, format, width, height, broadcast) ==
  IF width < 3 \/ height < 3
  THEN Error(-1, <<3, 3>>, <<width, height>>)
  ELSE LET offset(p) == coordToIndex(format, width, height, p \div width, p % width)
           wrong(p) ==
             \/ expect_row(broadcast, p \div width) # data[offset(p) + 1]
             \/ expect_col(broadcast, p % width) # data[offset(p)]
           \* pixels in the order of the two loops: p = row * width + col
           bad == {p \in 0..(width * height - 1) :
                     /\ p \div width < height - 1
                     /\ p % width < width - 1
                     /\ ~skipped(width, height, p \div width, p % width)
                     /\ wrong(p)}
       IN  IF bad = {} THEN NoError
           ELSE LET p == First(bad)
                IN  IF expect_row(broadcast, p \div width) # data[offset(p) + 1]
                    THEN Error(p, expect_row(broadcast, p \div width), data[offset(p) + 1])
                    ELSE Error(p, expect_row(broadcast, p \div width), data[offset(p)])

\* Framebuffer widths and heights.
FramebufferSides == 2..5

\* The words of the read-back buffer that belong to a texel.
texelWords(format, width, height) ==
  {coordToIndex(format, width, height, row, col) + k :
     row \in 0..(height - 1), col \in 0..(width - 1), k \in 0..3}

\* What the fragment shader writes at each texel when quadBroadcast is
\* correct: the position of the quad's invocation `broadcast`, or 1001 in
\* either component when that invocation is in the last row or column (or
\* outside the framebuffer), then two zeros.
Framebuffer(format, width, height, broadcast) ==
  [w \in texelWords(format, width, height) |->
     LET u == getUintsPerFramebuffer(format, width, height)
         row == w \div u.uintsPerRow
         col == (w % u.uintsPerRow) \div u.uintsPerTexel
         k == w % u.uintsPerTexel
         from_row == 2 * (row \div 2) + (broadcast \div 2)
         from_col == 2 * (col \div 2) + (broadcast % 2)
         in_range == from_col < width - 1 /\ from_row < height - 1
     IN  CASE k = 0 -> IF in_range THEN from_col ELSE 1001
           [] k = 1 -> IF in_range THEN from_row ELSE 1001
           [] OTHER -> 0]

\* g.test('fragment,all_active'): the check of what the device wrote.
fragment_all_active ==
  \E width \in FramebufferSides, height \in FramebufferSides, id \in 0..3 :
    \E w \in texelWords("rgba32uint", width, height), d \in {0, 1} :
      LET data == Corrupt(Framebuffer("rgba32uint", width, height, id), w, d)
      IN  /\ test = "none" /\ checked = NoCheck
          /\ checked' = [fn |-> "checkFragment", format |-> "rgba32uint",
                         width |-> width, height |-> height, broadcast |-> id,
                         data |-> data,
                         result |-> checkFragment(data, "rgba32uint", width, height, id)]
          /\ UNCHANGED <<test, params, calls, post, program>>

ChecksNext ==
  \/ data_types
  \/ compute_all_active
  \/ compute_split
  \/ fragment_all_active

ChecksSpec == Init /\ [][ChecksNext]_vars

(***************************************************************************)
(* Properties                                                              *)
(***************************************************************************)
\* The last expectCompileResult call of the test: the one on the program as
\* written, without the diagnostic directive.
LastCall == calls[Len(calls)]

\* The tag of an expression built from module-scope leaves only.
LeafExprTag(e) == Eval(e, InitState(FALSE)).tag

\* C1 (as stated): a collective call site is a violation iff the ambient
\* execution uniformity at the site is Divergent, whatever its arguments: the
\* verdict every test requires for its program is "accepted" iff every
\* collective call site of the program is under Uniform execution.
C1_ViolationIffAmbientDivergent ==
  test # "none" =>
    LastCall.expected = (\A i \in DOMAIN post.sites : post.sites[i].cf = Uniform)

C1_SitePermitted(site) ==
  /\ site.cf = Uniform
  /\ ~(site.op = "workgroupUniformLoad" /\ site.addr = Divergent)

\* C1 (amended): a collective call site is a violation iff the ambient
\* execution uniformity at the site is Divergent or the site is a
\* workgroupUniformLoad whose pointer argument has a Divergent address; the
\* verdict every test requires is "accepted" iff no call site of the program
\* is such a site.  A program with no collective call site is accepted even
\* when it computes a Divergent value or a Divergent-address pointer (the
\* pointer cases without their check).
C1_ViolationIffDivergentOrAddress ==
  /\ test # "none" =>
       /\ LastCall.expected = (\A i \in DOMAIN post.sites : C1_SitePermitted(post.sites[i]))
       /\ \A i \in DOMAIN post.sites :
            post.sites[i].violation = ~C1_SitePermitted(post.sites[i])
  /\ test = "pointers" /\ Len(calls) = 2 /\ params.case # "wg_uniform_load_is_uniform" =>
       LET r == Analyze(PointerCode(params.case, FALSE), FALSE)
       IN  /\ r.sites = <<>>
           /\ calls[1].expected /\ calls[1].accepted
           /\ \/ r.next.v["test_val"] = Divergent
              \/ r.next.ptr["ptr"].addr = Divergent

\* C1 witness: workgroupUniformLoad of a Divergent-address pointer at the top
\* level of main: Uniform execution, yet a violation; the same program
\* without the call is accepted.
C1_Witness ==
  /\ test = "pointers" /\ params.case = "address_nonuniform_value"
  /\ Len(calls) = 2 /\ calls[1].accepted
  /\ Len(post.sites) = 1
  /\ post.sites[1].cf = Uniform /\ post.sites[1].addr = Divergent
  /\ post.sites[1].violation
  /\ ~LastCall.expected /\ ~LastCall.accepted

\* The tag of a basics condition at the point where the statement under test
\* starts: after the declarations of p, u_let, n_let, u_f and n_f.
C2_CondTag(cond, stage) ==
  LET code == BasicsCode("workgroupBarrier", stage, cond, "if")
      prologue == SubSeq(code, 1, Len(code) - 1)
  IN  Eval(generateCondition(cond), Analyze(prologue, FALSE).next).tag

C2_Expectation(cond) ==
  kConditions[CHOOSE i \in DOMAIN kConditions : kConditions[i].cond = cond].expectation

\* C2: for each of the 15 collective operations and each statement kind in
\* {if, for, while, switch}, the program whose only collective call is in the
\* body of the statement controlled by condition c is accepted iff c is
\* Uniform: the call site's ambient uniformity is the tag of c, and the
\* verdict is the expectation kConditions lists for c, whatever the
\* operation and the statement kind.
C2_BasicsAcceptedIffCondUniform ==
  test = "basics" =>
    /\ Len(post.sites) = 1
    /\ post.sites[1].op = params.op
    /\ post.sites[1].cf = C2_CondTag(params.cond, StageOf(params.op))
    /\ LastCall.accepted = (post.sites[1].cf = Uniform)
    /\ LastCall.accepted = C2_Expectation(params.cond)
    /\ LastCall.expected = C2_Expectation(params.cond)

\* C2 witness: a barrier in a switch on a Divergent selector is rejected, and
\* workgroupUniformLoad in a for loop with a Uniform condition is accepted.
C2_Witness ==
  /\ test = "basics"
  /\ \/ /\ params.op = "workgroupBarrier" /\ params.statement = "switch"
        /\ params.cond = "nonuniform_and2"
        /\ post.sites[1].cf = Divergent /\ ~LastCall.accepted
     \/ /\ params.op = "workgroupUniformLoad" /\ params.statement = "for"
        /\ params.cond = "uniform_or"
        /\ post.sites[1].cf = Uniform /\ LastCall.accepted

\* The base tags as the claim lists them.
C3_ListedTag(kind, name) ==
  CASE kind \in {"literal", "const", "override", "uniform_buffer", "storage_ro"} ->
         Uniform
    [] kind \in {"storage_rw", "private"} -> Divergent
    [] kind = "builtin" /\ name \in {"position", "front_facing", "sample_index",
                                     "sample_mask", "local_invocation_id",
                                     "local_invocation_index",
                                     "global_invocation_id"} -> Divergent
    [] kind = "builtin" /\ name \in {"workgroup_id", "num_workgroups"} -> Uniform

\* The leaf a basics condition reads (for nonuniform_storage_ro, the
\* var<private> index of the read-only storage read).
C3_LeafOfCond(cond, stage) ==
  CASE cond = "uniform_storage_ro" -> <<"storage_ro", "ro_buffer">>
    [] cond = "nonuniform_storage_ro" -> <<"private", "priv_var">>
    [] cond = "nonuniform_storage_rw" -> <<"storage_rw", "rw_buffer">>
    [] cond = "nonuniform_builtin" ->
         <<"builtin", IF stage = "compute" THEN "global_invocation_id" ELSE "position">>
    [] cond = "uniform_literal" -> <<"literal", "false">>
    [] cond = "uniform_const" -> <<"const", "c">>
    [] cond = "uniform_override" -> <<"override", "o">>
    [] cond \in {"uniform_let", "uniform_func_var"} ->
         <<"uniform_buffer", "uniform_buffer">>
    [] cond \in {"nonuniform_let", "nonuniform_func_var"} -> <<"storage_rw", "rw_buffer">>

C3_LeafConds ==
  {"uniform_storage_ro", "nonuniform_storage_ro", "nonuniform_storage_rw",
   "nonuniform_builtin", "uniform_literal", "uniform_const", "uniform_override",
   "uniform_let", "nonuniform_let", "uniform_func_var", "nonuniform_func_var"}

\* C3: leaf bindings have fixed base tags: a statement controlled by a
\* condition that reads one leaf is accepted iff the listed tag of the leaf
\* is Uniform (literal, const, override, uniform buffer, read-only storage:
\* Uniform; read-write storage, private variables, position, front_facing,
\* sample_index, sample_mask, local_invocation_id, local_invocation_index,
\* global_invocation_id: Divergent; workgroup_id, num_workgroups: Uniform),
\* and a let or var initialised from a leaf has the leaf's tag.
C3_LeafBaseTags ==
  /\ test = "basics" /\ params.cond \in C3_LeafConds =>
       LET leaf == C3_LeafOfCond(params.cond, StageOf(params.op))
       IN  /\ LastCall.expected = (C3_ListedTag(leaf[1], leaf[2]) = Uniform)
           /\ LastCall.accepted = LastCall.expected
           /\ post.sites[1].cf = C3_ListedTag(leaf[1], leaf[2])
  /\ test = "basics" =>
       /\ post.v["u_let"] = C3_ListedTag("uniform_buffer", "uniform_buffer")
       /\ post.v["u_f"] = C3_ListedTag("uniform_buffer", "uniform_buffer")
       /\ post.v["n_let"] = C3_ListedTag("storage_rw", "rw_buffer")
       /\ post.v["n_f"] = C3_ListedTag("storage_rw", "rw_buffer")
  /\ test \in {"fragment_builtin_values", "compute_builtin_values"} =>
       /\ LastCall.expected = (C3_ListedTag("builtin", params.builtin) = Uniform)
       /\ LastCall.accepted = LastCall.expected
       /\ post.v["p"] = C3_ListedTag("builtin", params.builtin)
       /\ post.sites[1].cf = C3_ListedTag("builtin", params.builtin)

\* C3 witness: a barrier guarded by workgroup_id is accepted, one guarded by
\* local_invocation_index is rejected, and a sample guarded by an override is
\* accepted.
C3_Witness ==
  \/ /\ test = "compute_builtin_values" /\ params.builtin = "workgroup_id"
     /\ post.v["p"] = Uniform /\ LastCall.accepted
  \/ /\ test = "compute_builtin_values" /\ params.builtin = "local_invocation_index"
     /\ post.v["p"] = Divergent /\ ~LastCall.accepted
  \/ /\ test = "basics" /\ params.cond = "uniform_override"
     /\ params.op = "textureSample" /\ LastCall.accepted

\* C4: the tag of a binary arithmetic, bitwise, shift or comparison
\* expression is the meet of its operand tags, and the tag of a unary
\* expression is its operand's tag: for every pair of kExpressionCases and
\* each of the 16 binary operators the program is accepted iff both operands
\* are Uniform, for each unary operator iff the operand is; an indexing
\* operand is Uniform iff both its base and its index are.
C4_OperatorTagIsMeet ==
  /\ \A e \in keysOf(kExpressionCases) :
       LET c == kExpressionCases[e].code
       IN  /\ kExpressionCases[e].uniform = (LeafExprTag(c) = Uniform)
           /\ c.k = "index" =>
                kExpressionCases[e].uniform =
                  (LeafTag(c.base.kind, c.base.name) = Uniform
                     /\ LeafTag(c.idx.kind, c.idx.name) = Uniform)
  /\ test = "binary_expressions" =>
       LET t1 == LeafExprTag(kExpressionCases[params.e1].code)
           t2 == LeafExprTag(kExpressionCases[params.e2].code)
       IN  /\ post.v["tmp"] = Meet(t1, t2)
           /\ post.sites[1].cf = Meet(t1, t2)
           /\ LastCall.expected = (t1 = Uniform /\ t2 = Uniform)
           /\ LastCall.accepted = LastCall.expected
  /\ test = "unary_expressions" =>
       LET t1 == LeafExprTag(kExpressionCases[params.e1].code)
       IN  /\ post.v["tmp"] = t1
           /\ post.sites[1].cf = t1
           /\ LastCall.expected = (t1 = Uniform)
           /\ LastCall.accepted = LastCall.expected

\* C4 witness: a shift of a Uniform index expression by a Divergent struct
\* member is Divergent, and the negation of a Uniform constant is Uniform.
C4_Witness ==
  \/ /\ test = "binary_expressions" /\ params.op = "shl"
     /\ params.e1 = "uniform_index" /\ params.e2 = "nonuniform_struct"
     /\ post.v["tmp"] = Divergent /\ ~LastCall.accepted
  \/ /\ test = "unary_expressions" /\ params.op = "-i32(i_tmp) > 0"
     /\ params.e1 = "uniform" /\ post.v["tmp"] = Uniform /\ LastCall.accepted

\* The tag of x before the statements of a function_variables case: the tag
\* of its initialiser, Uniform when it has none.
PreTag(init) ==
  IF kVarInit[init] = NoExpr THEN Uniform ELSE LeafExprTag(kVarInit[init])

\* A statement list that ends in an unconditional exit.
EndsInExit(stmts) ==
  stmts # <<>> /\ stmts[Len(stmts)].k \in {"return", "break", "continue"}

\* The tag of x at the end of a straight-line list of statements entered
\* with tag pre under Uniform execution: the tag of the last value assigned.
WriteExitTag(stmts, pre) ==
  LET writes == {i \in DOMAIN stmts : stmts[i].k = "assign"}
  IN  IF writes = {} THEN pre
      ELSE LeafExprTag(stmts[CHOOSE i \in writes : \A j \in writes : j <= i].e)

\* The final statement of a function_variables program: the sample guarded
\* by the case's condition on x.
GuardedSample(case) ==
  <<If(kFuncVarCases[case].cond, <<Let("tmp", TextureSampleCall)>>, <<>>)>>

C5_Cases ==
  {"no_assign", "if_no_else_uniform", "if_no_else_nonuniform",
   "if_no_then_uniform", "if_no_then_nonuniform", "if_else_uniform",
   "if_else_nonuniform", "if_else_split"}

\* C5: after an if with a Uniform condition whose branches both fall
\* through, the tag of x is the meet of its tags at the two branch exits; an
\* absent or empty branch contributes the tag x had before the if, Uniform
\* for a variable never written; the sample guarded by x is accepted iff
\* that meet is Uniform, which is what the case's expectation says.
C5_IfJoinIsMeetOfBranchExits ==
  test = "function_variables" /\ params.case \in C5_Cases =>
    LET a == kFuncVarCases[params.case].assignment
        pre == PreTag(params.init)
        tag == IF a = <<>> THEN pre
               ELSE Meet(WriteExitTag(a[1].t, pre), WriteExitTag(a[1].e, pre))
    IN  /\ a # <<>> =>
             /\ a[1].k = "if" /\ LeafExprTag(a[1].c) = Uniform
             /\ ~EndsInExit(a[1].t) /\ ~EndsInExit(a[1].e)
        /\ PreTag("no_init") = Uniform
        /\ post.v["x"] = tag
        /\ Len(post.sites) = 1 /\ post.sites[1].cf = tag
        /\ LastCall.expected = (tag = Uniform)
        /\ LastCall.accepted = LastCall.expected

\* C5 witness: a Uniform write in the only branch joins with a Divergent
\* initialiser to Divergent, and with no initialiser to Uniform; a Uniform
\* and a Divergent write join to Divergent.
C5_Witness ==
  /\ test = "function_variables"
  /\ \/ /\ params.case = "if_no_else_uniform" /\ params.init = "nonuniform"
        /\ post.v["x"] = Divergent /\ ~LastCall.accepted
     \/ /\ params.case = "if_no_then_uniform" /\ params.init = "no_init"
        /\ post.v["x"] = Uniform /\ LastCall.accepted
     \/ /\ params.case = "if_else_split" /\ params.init = "uniform"
        /\ post.v["x"] = Divergent /\ ~LastCall.accepted

C6_Cases == {"loop_continuing_from_body_split4", "loop_continuing_from_body_split5"}

\* C6: after an if whose condition is Divergent, x is Divergent after the
\* join even when both branches assign it a Uniform value (split4), and even
\* when both assign the very same Uniform value (split5): the sample guarded
\* by x after the join (the first call site; the second, under the literal
\* true, is not guarded) is a violation, whatever the initialiser of x.
C6_DivergentIfMakesWritesDivergent ==
  /\ kFuncVarCases["loop_continuing_from_body_split5"].assignment[1].body[1].t
       = kFuncVarCases["loop_continuing_from_body_split5"].assignment[1].body[1].e
  /\ kFuncVarCases["loop_continuing_from_body_split4"].assignment[1].body[1].t
       # kFuncVarCases["loop_continuing_from_body_split4"].assignment[1].body[1].e
  /\ test = "function_variables" /\ params.case \in C6_Cases =>
       LET if == kFuncVarCases[params.case].assignment[1].body[1]
           join == Analyze(<<VarDecl("x", kVarInit[params.init]), if>>, FALSE)
       IN  /\ if.k = "if" /\ LeafExprTag(if.c) = Divergent
           /\ WriteExitTag(if.t, Divergent) = Uniform
           /\ WriteExitTag(if.e, Divergent) = Uniform
           /\ join.next.v["x"] = Divergent
           /\ join.next.cf = Uniform
           /\ Len(post.sites) = 2
           /\ post.sites[1].cf = Divergent /\ post.sites[1].violation
           /\ post.sites[2].cf = Uniform /\ ~post.sites[2].violation
           /\ ~LastCall.expected /\ ~LastCall.accepted

\* C6 witness: both branches assign uniform_value[0] under a Divergent
\* condition to an x initialised Uniform, and the guarded sample is rejected.
C6_Witness ==
  /\ test = "function_variables"
  /\ params.case = "loop_continuing_from_body_split5" /\ params.init = "uniform"
  /\ post.v["x"] = Divergent
  /\ post.sites[1].violation /\ ~LastCall.accepted

C7_Cases ==
  {"if_unreachable_else_none", "if_unreachable_else_uniform",
   "if_unreachable_else_nonuniform", "if_unreachable_then_none",
   "if_unreachable_then_uniform", "if_unreachable_then_nonuniform",
   "if_nonescaping_nonuniform"}

\* C7: a branch of an if that ends in return is excluded from the join: the
\* state after the if is the exit state of the other branch unmodified, so
\* the program is analysed exactly as the one in which the surviving branch
\* stands in place of the if; a Divergent write followed by return does not
\* make x Divergent, a Divergent write in the surviving branch does.  The
\* same holds for a case of a switch that ends in return.
C7_ExitingBranchExcludedFromJoin ==
  /\ LET sw == Switch(uniform_val, << <<Assign(X, NV("0")), Return>>,
                                      <<Assign(X, UV("0"))>> >>)
         r == Analyze(<<VarDecl("x", NoExpr), sw>>, FALSE)
     IN  r.live /\ r.next.v["x"] = Uniform /\ r.next.cf = Uniform
  /\ test = "function_variables" /\ params.case \in C7_Cases =>
       LET if == kFuncVarCases[params.case].assignment[1]
           surviving == IF EndsInExit(if.t) THEN if.e ELSE if.t
           decl == <<VarDecl("x", kVarInit[params.init])>>
           other == Summary(Analyze(decl \o surviving \o GuardedSample(params.case),
                                    FALSE))
           tag == WriteExitTag(surviving, PreTag(params.init))
       IN  /\ if.k = "if" /\ LeafExprTag(if.c) = Uniform
           /\ EndsInExit(if.t) # EndsInExit(if.e)
           /\ post.v = other.v /\ post.cf = other.cf /\ post.sites = other.sites
           /\ post.v["x"] = tag
           /\ LastCall.expected = (tag = Uniform)
           /\ LastCall.accepted = LastCall.expected

\* C7 witness: a Divergent write followed by return leaves x Uniform after
\* the if, and a Divergent write in the surviving branch makes it Divergent.
C7_Witness ==
  /\ test = "function_variables"
  /\ \/ /\ params.case = "if_nonescaping_nonuniform" /\ params.init = "uniform"
        /\ post.v["x"] = Uniform /\ LastCall.accepted
     \/ /\ params.case = "if_unreachable_then_nonuniform" /\ params.init = "uniform"
        /\ post.v["x"] = Divergent /\ ~LastCall.accepted

RECURSIVE PruneSeq(_), PruneStmt(_), PruneFrom(_, _)

\* A statement with the statements that follow an unconditional break,
\* continue or return removed from every statement list inside it.
PruneStmt(s) ==
  CASE s.k = "if" -> If(s.c, PruneSeq(s.t), PruneSeq(s.e))
    [] s.k = "loop" -> Loop(PruneSeq(s.body), PruneSeq(s.cont), s.brkif)
    [] s.k = "for" -> For(s.init, s.c, s.upd, PruneSeq(s.body))
    [] s.k = "while" -> While(s.c, PruneSeq(s.body))
    [] OTHER -> s

PruneFrom(stmts, i) ==
  IF i > Len(stmts) THEN <<>>
  ELSE IF stmts[i].k \in {"break", "continue", "return"} THEN <<stmts[i]>>
  ELSE <<PruneStmt(stmts[i])>> \o PruneFrom(stmts, i + 1)

PruneSeq(stmts) == PruneFrom(stmts, 1)

RECURSIVE AssignedTags(_, _), CondTags(_, _)

\* The tags of the values assigned by the statements stmts[i..], as
\* expressions over module-scope leaves.
AssignedTags(stmts, i) ==
  IF i > Len(stmts) THEN {}
  ELSE LET s == stmts[i]
           here == CASE s.k = "assign" -> {LeafExprTag(s.e)}
                     [] s.k = "if" -> AssignedTags(s.t, 1) \cup AssignedTags(s.e, 1)
                     [] s.k = "loop" ->
                          AssignedTags(s.body, 1) \cup AssignedTags(s.cont, 1)
                     [] s.k = "for" -> AssignedTags(s.body, 1)
                     [] OTHER -> {}
       IN  here \cup AssignedTags(stmts, i + 1)

\* The tags of the conditions of the statements stmts[i..]: if conditions,
\* break-if conditions and for conditions.
CondTags(stmts, i) ==
  IF i > Len(stmts) THEN {}
  ELSE LET s == stmts[i]
           here == CASE s.k = "if" ->
                          {LeafExprTag(s.c)} \cup CondTags(s.t, 1) \cup CondTags(s.e, 1)
                     [] s.k = "loop" ->
                          (IF s.brkif = NoExpr THEN {} ELSE {LeafExprTag(s.brkif)})
                            \cup CondTags(s.body, 1) \cup CondTags(s.cont, 1)
                     [] s.k = "for" ->
                          (IF s.c = NoExpr THEN {} ELSE {LeafExprTag(s.c)})
                            \cup CondTags(s.body, 1)
                     [] OTHER -> {}
       IN  here \cup CondTags(stmts, i + 1)

MeetAll(tags) == IF Divergent \in tags THEN Divergent ELSE Uniform

C8_Cases ==
  {"unreachable_uniform", "unreachable_nonuniform", "loop_unreachable_continuing",
   "nested1"}

\* C8: a write (a partial member write included) after an unconditional
\* break, and a continuing block no path reaches, have no effect: the program
\* is analysed exactly as the program with the dead statements removed, and
\* for loop { break; x = value } and loop { break; continuing { break if c } }
\* the tag of x after the loop is its tag before the loop.
C8_DeadCodeHasNoEffect ==
  test = "function_variables" /\ params.case \in C8_Cases =>
    LET a == kFuncVarCases[params.case].assignment
        decl == <<VarDecl("x", kVarInit[params.init])>>
        pruned == IF params.case = "loop_unreachable_continuing"
                  THEN <<Loop(a[1].body, <<>>, NoExpr)>>
                  ELSE PruneSeq(a)
        other == Summary(Analyze(decl \o pruned \o GuardedSample(params.case), FALSE))
    IN  /\ pruned # a
        /\ params.case \in {"unreachable_uniform", "unreachable_nonuniform"} =>
             /\ a[1].k = "loop" /\ a[1].body[1] = Break
             /\ a[1].body[2].k = "assign"
             /\ pruned = <<Loop(<<Break>>, <<>>, NoExpr)>>
        /\ params.case = "loop_unreachable_continuing" =>
             a[1].body = <<Break>> /\ a[1].brkif # NoExpr
        /\ params.case = "nested1" =>
             Divergent \in AssignedTags(a, 1) /\ AssignedTags(pruned, 1) = {Uniform}
        /\ post.v = other.v /\ post.cf = other.cf /\ post.sites = other.sites
        /\ post.v["x"] = PreTag(params.init)
        /\ LastCall.expected = (PreTag(params.init) = Uniform)
        /\ LastCall.accepted = LastCall.expected

\* C8 witness: a Divergent write after break leaves a Uniform x Uniform, and
\* a Divergent member write after break in a nested if does the same.
C8_Witness ==
  /\ test = "function_variables"
  /\ \/ /\ params.case = "unreachable_nonuniform" /\ params.init = "uniform"
        /\ post.v["x"] = Uniform /\ LastCall.accepted
     \/ /\ params.case = "nested1" /\ params.init = "no_init"
        /\ post.v["x"] = Uniform /\ LastCall.accepted

C9_Cases ==
  {"loop_body_uniform", "loop_body_nonuniform", "after_loop_with_uniform_break_uniform",
   "after_loop_with_uniform_break_nonuniform", "after_loop_with_uniform_breaks"}

\* The tags of x at the program points that leave a loop entered with tag
\* entry: the end of each branch of a top-level if of the body that ends in
\* break, and the break-if of the continuing block.
C9_ExitTags(loop, entry) ==
  LET ifs == {i \in DOMAIN loop.body : loop.body[i].k = "if"}
      thens == {WriteExitTag(loop.body[i].t, entry) :
                  i \in {j \in ifs : EndsInExit(loop.body[j].t)}}
      elses == {WriteExitTag(loop.body[i].e, entry) :
                  i \in {j \in ifs : EndsInExit(loop.body[j].e)}}
      brkif == IF loop.brkif = NoExpr THEN {}
               ELSE {WriteExitTag(loop.body \o loop.cont, entry)}
  IN  thens \cup elses \cup brkif

\* C9: after a loop whose exits are all taken under Uniform conditions, the
\* tag of x is the meet of its tags at the points that leave the loop: a
\* Uniform write on every exiting path gives Uniform whatever the entry tag,
\* a Divergent write on an exiting path gives Divergent, and an exiting path
\* with no write contributes the loop-entry tag.
C9_LoopExitIsMeetOfExitPoints ==
  test = "function_variables" /\ params.case \in C9_Cases =>
    LET loop == kFuncVarCases[params.case].assignment[1]
        exits == C9_ExitTags(loop, PreTag(params.init))
        tag == MeetAll(exits)
    IN  /\ loop.k = "loop" /\ CondTags(<<loop>>, 1) = {Uniform}
        /\ exits # {}
        /\ post.v["x"] = tag
        /\ Len(post.sites) = 1 /\ post.sites[1].cf = tag
        /\ LastCall.expected = (tag = Uniform)
        /\ LastCall.accepted = LastCall.expected

\* C9 witness: a Uniform write before the only break makes a Divergent x
\* Uniform after the loop; with a second, bare break x stays Divergent.
C9_Witness ==
  /\ test = "function_variables" /\ params.init = "nonuniform"
  /\ \/ /\ params.case = "after_loop_with_uniform_break_uniform"
        /\ post.v["x"] = Uniform /\ LastCall.accepted
     \/ /\ params.case = "after_loop_with_uniform_breaks"
        /\ post.v["x"] = Divergent /\ ~LastCall.accepted

C10_Cases == {"loop_body_nonuniform_cond", "after_loop_with_nonuniform_break", "nested2"}

\* C10: if a loop is left through a break or break-if whose condition is
\* Divergent (in nested2: through exits that follow a continue guarded by a
\* Divergent condition), x is Divergent after the loop although every value
\* assigned to it in reachable code is Uniform, and the sample guarded by x
\* after the loop is a violation, whatever the initialiser of x.
C10_DivergentExitMakesWritesDivergent ==
  test = "function_variables" /\ params.case \in C10_Cases =>
    LET a == kFuncVarCases[params.case].assignment
    IN  /\ a[1].k \in {"loop", "for"}
        /\ AssignedTags(PruneSeq(a), 1) = {Uniform}
        /\ Divergent \in CondTags(a, 1)
        /\ params.case = "loop_body_nonuniform_cond" =>
             LeafExprTag(a[1].brkif) = Divergent
        /\ params.case = "after_loop_with_nonuniform_break" =>
             /\ LeafExprTag(a[1].body[1].c) = Divergent
             /\ EndsInExit(a[1].body[1].t)
        /\ post.v["x"] = Divergent
        /\ Len(post.sites) = 1
        /\ post.sites[1].cf = Divergent /\ post.sites[1].violation
        /\ ~LastCall.expected /\ ~LastCall.accepted

\* C10 witness: x initialised Uniform and assigned uniform_value[0] before a
\* break-if on a Divergent condition is Divergent after the loop.
C10_Witness ==
  /\ test = "function_variables" /\ params.init = "uniform"
  /\ params.case \in {"loop_body_nonuniform_cond", "after_loop_with_nonuniform_break"}
  /\ post.v["x"] = Divergent
  /\ post.sites[1].violation /\ ~LastCall.accepted

C11_BodyCases ==
  {"loop_body_depends_on_continuing_uniform", "loop_body_depends_on_continuing_nonuniform"}

C11_ContinuingCases ==
  {"loop_continuing_from_body_uniform", "loop_continuing_from_body_nonuniform",
   "loop_continuing_from_body_split1", "loop_continuing_from_body_split2",
   "loop_continuing_from_body_split3"}

\* The tag of x at the end of a loop body entered with tag entry: the body is
\* a list of writes, or one if whose branches are lists of writes.
C11_BodyExitTag(body, entry) ==
  IF body # <<>> /\ body[1].k = "if"
  THEN Meet(WriteExitTag(body[1].t, entry), WriteExitTag(body[1].e, entry))
  ELSE WriteExitTag(body, entry)

\* C11: the state at loop-body entry on later iterations includes the effect
\* of the continuing block: the sample in the body guarded by x is judged
\* under the meet of x's tag at loop entry and its tag at the end of the
\* continuing block, so it is a violation when continuing assigns a
\* Divergent value and, when continuing assigns a Uniform value, permitted
\* iff x was Uniform at loop entry; a sample in the continuing block guarded
\* by x is judged under x's tag at the end of the body, itself entered from
\* that meet; and a Divergent break-if makes a sample in the body a violation.
C11_BackEdgeCarriesContinuing ==
  /\ LET prog(c) == <<Loop(<<Let("tmp", TextureSampleCall)>>, <<>>, c)>>
         d == Analyze(prog(nonuniform_cond), FALSE)
         u == Analyze(prog(uniform_cond), FALSE)
     IN  /\ Len(d.sites) = 1 /\ d.sites[1].cf = Divergent /\ d.sites[1].violation
         /\ Len(u.sites) = 1 /\ u.sites[1].cf = Uniform /\ ~u.sites[1].violation
  /\ test = "function_variables" /\ params.case \in C11_BodyCases =>
       LET loop == kFuncVarCases[params.case].assignment[1]
           pre == PreTag(params.init)
           tag == Meet(pre, WriteExitTag(loop.cont, pre))
       IN  /\ loop.k = "loop" /\ loop.body = <<SampleIfX>>
           /\ LeafExprTag(loop.brkif) = Uniform
           /\ Len(post.sites) = 2 /\ post.sites[1].cf = tag
           /\ post.passes >= 2 \/ tag = pre
           /\ LastCall.expected = (tag = Uniform)
           /\ LastCall.accepted = LastCall.expected
  /\ test = "function_variables" /\ params.case \in C11_ContinuingCases =>
       LET loop == kFuncVarCases[params.case].assignment[1]
           pre == PreTag(params.init)
           first == C11_BodyExitTag(loop.body, pre)
           tag == C11_BodyExitTag(loop.body, Meet(pre, first))
       IN  /\ loop.k = "loop" /\ loop.cont = <<SampleIfX>>
           /\ CondTags(<<loop>>, 1) = {Uniform}
           /\ Len(post.sites) = 2 /\ post.sites[1].cf = tag
           /\ LastCall.expected = (tag = Uniform)
           /\ LastCall.accepted = LastCall.expected

\* C11 witness: x is initialised Uniform and the first iteration's body sees
\* a Uniform x, yet the sample in the body is a violation because continuing
\* assigns a Divergent value; found on the second pass over the loop.
C11_Witness ==
  /\ test = "function_variables"
  /\ params.case = "loop_body_depends_on_continuing_nonuniform"
  /\ params.init = "uniform"
  /\ post.passes >= 2
  /\ post.sites[1].cf = Divergent /\ post.sites[1].violation
  /\ ~LastCall.accepted

RECURSIVE StraightTag(_, _, _)

\* The tag of x after the statements stmts[i..] run in sequence under
\* Uniform execution, entered with tag cur: an assignment to x gives the tag
\* of the value, a compound assignment to x the meet with it, any other
\* statement leaves x alone.
StraightTag(stmts, i, cur) ==
  IF i > Len(stmts) THEN cur
  ELSE LET s == stmts[i]
           nxt == CASE s.k = "assign" /\ s.lhs = X -> LeafExprTag(s.e)
                    [] s.k = "compound" /\ s.lhs = X -> Meet(cur, LeafExprTag(s.e))
                    [] OTHER -> cur
       IN  StraightTag(stmts, i + 1, nxt)

C12_Cases ==
  {"for_loop_uniform_body", "for_loop_nonuniform_body",
   "for_loop_uniform_body_no_condition", "for_loop_nonuniform_body_no_condition",
   "for_loop_uniform_increment", "for_loop_nonuniform_increment",
   "for_loop_uniform_init", "for_loop_nonuniform_init",
   "while_loop_uniform_body", "while_loop_nonuniform_body"}

\* The loop a for or while statement stands for, written out: the
\* initialiser, then loop { if !c { break } body continuing { update } },
\* the guard left out when the for has no condition.
C12_WrittenOut(s) ==
  IF s.k = "while"
  THEN <<Loop(<<If(Un("!", s.c), <<Break>>, <<>>)>> \o s.body, <<>>, NoExpr)>>
  ELSE s.init
         \o <<Loop((IF s.c = NoExpr THEN <<>>
                    ELSE <<If(Un("!", s.c), <<Break>>, <<>>)>>) \o s.body,
                   s.upd, NoExpr)>>

\* The tag of x after a for or while whose conditions are Uniform, entered
\* with tag pre: with a guard the loop is left at the guard, where x has the
\* meet of its tag after the initialiser and its tag at the end of an
\* iteration; without one it is left at the break that ends the body.
C12_ExitTag(s, pre) ==
  LET init == IF s.k = "for" THEN StraightTag(s.init, 1, pre) ELSE pre
      iter == s.body \o (IF s.k = "for" THEN s.upd ELSE <<>>)
      header == Meet(init, StraightTag(iter, 1, init))
  IN  IF s.k = "while" \/ s.c # NoExpr THEN header
      ELSE StraightTag(s.body, 1, header)

\* C12: a for with a condition and a while are analysed exactly as the loop
\* they stand for, with the break-guard before the body, so a Uniform write
\* in the body leaves x Uniform only if it was Uniform at loop entry; a for
\* without a condition has no guard, so a Uniform write ahead of a Uniform
\* break makes x Uniform whatever its entry tag; a for initialiser is an
\* unconditional write and a for update acts at the end of each iteration.
C12_ForWhileAsLoop ==
  test = "function_variables" /\ params.case \in C12_Cases =>
    LET s == kFuncVarCases[params.case].assignment[1]
        decl == <<VarDecl("x", kVarInit[params.init])>>
        other == Summary(Analyze(decl \o C12_WrittenOut(s)
                                   \o GuardedSample(params.case), FALSE))
        tag == C12_ExitTag(s, PreTag(params.init))
    IN  /\ s.k \in {"for", "while"}
        /\ post.v = other.v /\ post.cf = other.cf /\ post.sites = other.sites
        /\ post.live = other.live
        /\ post.v["x"] = tag
        /\ Len(post.sites) = 1 /\ post.sites[1].cf = tag
        /\ LastCall.expected = (tag = Uniform)
        /\ LastCall.accepted = LastCall.expected

\* C12 witness: with a Divergent initialiser a Uniform write in the body of
\* a while leaves x Divergent, the same write ahead of the break of a for
\* without condition makes it Uniform, and so does a for initialiser.
C12_Witness ==
  /\ test = "function_variables" /\ params.init = "nonuniform"
  /\ \/ /\ params.case = "while_loop_uniform_body"
        /\ post.v["x"] = Divergent /\ ~LastCall.accepted
     \/ /\ params.case = "for_loop_uniform_body_no_condition"
        /\ post.v["x"] = Uniform /\ LastCall.accepted
     \/ /\ params.case = "for_loop_uniform_init"
        /\ post.v["x"] = Uniform /\ LastCall.accepted

C13_Cases ==
  {"after_switch_all_uniform", "after_switch_some_assign", "after_switch_nonuniform"}

\* C13: after a switch with a Uniform selector the tag of x is the meet over
\* the exits of all case and default bodies, a body that does not write x
\* contributing the tag x had before the switch: Uniform writes in every
\* body give Uniform whatever the prior tag, Uniform writes in only some
\* bodies give Uniform iff the prior tag was Uniform, and a Divergent write
\* in any body gives Divergent.
C13_SwitchJoinIsMeetOfBodies ==
  test = "function_variables" /\ params.case \in C13_Cases =>
    LET s == kFuncVarCases[params.case].assignment[1]
        pre == PreTag(params.init)
        tag == MeetAll({StraightTag(s.bodies[i], 1, pre) : i \in DOMAIN s.bodies})
    IN  /\ s.k = "switch" /\ LeafExprTag(s.sel) = Uniform
        /\ Len(s.bodies) = 3
        /\ post.v["x"] = tag
        /\ post.cf = Uniform
        /\ Len(post.sites) = 1 /\ post.sites[1].cf = tag
        /\ LastCall.expected = (tag = Uniform)
        /\ LastCall.accepted = LastCall.expected

\* C13 witness: with a Divergent initialiser, Uniform writes in all three
\* bodies make x Uniform and Uniform writes in two of three leave it
\* Divergent.
C13_Witness ==
  /\ test = "function_variables" /\ params.init = "nonuniform"
  /\ \/ /\ params.case = "after_switch_all_uniform"
        /\ post.v["x"] = Uniform /\ LastCall.accepted
     \/ /\ params.case = "after_switch_some_assign"
        /\ post.v["x"] = Divergent /\ ~LastCall.accepted

C14_Cases ==
  {"after_switch_with_break_nonuniform1", "after_switch_with_break_nonuniform2"}

\* C14: a break inside a switch body leaves the switch, and its state joins
\* the fall-off-the-end state of the body after the switch: in both cases
\* one of the two paths carries a Divergent x (the fall-off path in
\* nonuniform1, the break path in nonuniform2), x is Divergent after the
\* switch, the statement after the switch is reached under Uniform execution
\* and the sample guarded by x is a violation.
C14_SwitchBreakJoinsAfterSwitch ==
  test = "function_variables" /\ params.case \in C14_Cases =>
    LET s == kFuncVarCases[params.case].assignment[1]
        body == s.bodies[1]
        k == CHOOSE i \in DOMAIN body : body[i].k = "if"
        pre == PreTag(params.init)
        before == SubSeq(body, 1, k - 1)
        after == SubSeq(body, k + 1, Len(body))
        brk == StraightTag(before \o body[k].t, 1, pre)
        fall == StraightTag(before \o after, 1, pre)
        r == Analyze(<<VarDecl("x", kVarInit[params.init]), s>>, FALSE)
    IN  /\ s.k = "switch" /\ LeafExprTag(s.sel) = Uniform
        /\ LeafExprTag(body[k].c) = Uniform
        /\ EndsInExit(body[k].t) /\ body[k].e = <<>>
        /\ {brk, fall} = {Uniform, Divergent}
        /\ (params.case = "after_switch_with_break_nonuniform1") = (fall = Divergent)
        /\ r.live /\ ~r.hasBrk /\ r.next.cf = Uniform
        /\ r.next.v["x"] = Meet(brk, fall)
        /\ post.v["x"] = Divergent
        /\ post.live /\ Len(post.sites) = 1
        /\ post.sites[1].cf = Divergent /\ post.sites[1].violation
        /\ ~LastCall.expected /\ ~LastCall.accepted

\* C14 witness: x is written Uniform, then written Divergent just before a
\* conditional break; the fall-off path carries the Uniform value, and x is
\* Divergent after the switch.
C14_Witness ==
  /\ test = "function_variables"
  /\ params.case = "after_switch_with_break_nonuniform2" /\ params.init = "uniform"
  /\ post.v["x"] = Divergent /\ post.live
  /\ post.sites[1].violation /\ ~LastCall.accepted

C15_Cases ==
  {"compound_assign_uniform", "compound_assign_nonuniform",
   "for_loop_uniform_increment", "for_loop_nonuniform_increment"}

\* C15: a compound assignment x op= e gives x the meet of its tag before and
\* the tag of e: with a Uniform e, x is Uniform afterwards iff it was Uniform
\* before, with a Divergent e it is Divergent, and a Divergent x is never
\* made Uniform; the same holds when the compound assignment is the update
\* of a for loop with a Uniform condition.
C15_CompoundAssignIsMeet ==
  test = "function_variables" /\ params.case \in C15_Cases =>
    LET s == kFuncVarCases[params.case].assignment[1]
        c == IF s.k = "for" THEN s.upd[1] ELSE s
        pre == PreTag(params.init)
        tag == Meet(pre, LeafExprTag(c.e))
    IN  /\ c.k = "compound" /\ c.lhs = X
        /\ s.k = "for" =>
             s.init = <<>> /\ s.body = <<>> /\ LeafExprTag(s.c) = Uniform
        /\ post.v["x"] = tag
        /\ pre = Divergent => post.v["x"] = Divergent
        /\ Len(post.sites) = 1 /\ post.sites[1].cf = tag
        /\ LastCall.expected = (tag = Uniform)
        /\ LastCall.accepted = LastCall.expected

\* C15 witness: x += uniform_value[0] leaves a Divergent x Divergent and an
\* uninitialised x Uniform; x -= nonuniform_value[0] makes a Uniform x
\* Divergent.
C15_Witness ==
  /\ test = "function_variables"
  /\ \/ /\ params.case = "compound_assign_uniform" /\ params.init = "nonuniform"
        /\ post.v["x"] = Divergent /\ ~LastCall.accepted
     \/ /\ params.case = "compound_assign_uniform" /\ params.init = "no_init"
        /\ post.v["x"] = Uniform /\ LastCall.accepted
     \/ /\ params.case = "compound_assign_nonuniform" /\ params.init = "uniform"
        /\ post.v["x"] = Divergent /\ ~LastCall.accepted

\* The names through which the contents cases reach the cell func_scalar.
C16_CellNames == {func_scalar, Deref(Var("p")), Deref(Var("ptr"))}

\* C16: the contents tag read from the cell func_scalar through any name
\* (the variable, a pointer to it, or an alias of that pointer) is the tag of
\* the last value written to the cell through any of those names before the
\* read, Uniform if there was none: a write through one name is seen through
\* every other, whether the pointer or alias was created before or after
\* the write, and a later Uniform write overrides an earlier Divergent one.
C16_ContentsFollowLastWrite ==
  test = "pointers" /\ params.case \in keysOf(kPointerCases_scalar) =>
    LET code == kPointerCases[params.case].code
        writes == {i \in DOMAIN code : code[i].k = "assign"}
        last == CHOOSE i \in writes : \A j \in writes : j <= i
        tag == IF writes = {} THEN Uniform ELSE LeafExprTag(code[last].e)
        read == code[Len(code)]
    IN  /\ \A i \in writes : code[i].lhs \in C16_CellNames
        /\ read.k = "let" /\ read.name = "test_val" /\ read.e \in C16_CellNames
        /\ \A i \in DOMAIN code \ writes :
             code[i].k = "let"
               /\ (code[i].name # "test_val" =>
                     code[i].e \in {AddrOf(func_scalar), Var("p")})
        /\ post.v["test_val"] = tag
        /\ Len(post.sites) = 1 /\ post.sites[1].op = "workgroupBarrier"
        /\ post.sites[1].cf = tag
        /\ LastCall.expected = (tag = Uniform)
        /\ LastCall.accepted = LastCall.expected

\* C16 witness: a Divergent write through p after the alias ptr was made is
\* read through ptr as Divergent; a Divergent write to the variable followed
\* by a Uniform one is read through an earlier pointer as Uniform.
C16_Witness ==
  /\ test = "pointers"
  /\ \/ /\ params.case = "contents_scalar_alias_nonuniform3"
        /\ post.v["test_val"] = Divergent /\ ~LastCall.accepted
     \/ /\ params.case = "contents_scalar_uniform3"
        /\ post.v["test_val"] = Uniform /\ LastCall.accepted

RECURSIVE IndexTags(_)

\* The tags of the index expressions in the chain of address-of, member,
\* index and dereference steps of a pointer expression, evaluated where the
\* built-in parameters lid and gid are in scope.
IndexTags(e) ==
  CASE e.k = "index" ->
         {Eval(e.idx, Analyze(PointerPrologue, FALSE).next).tag} \cup IndexTags(e.base)
    [] e.k = "member" -> IndexTags(e.base)
    [] e.k \in {"addr", "deref"} -> IndexTags(e.e)
    [] OTHER -> {}

\* The index tags of the whole chain that produces the final pointer of a
\* case: those of every let-bound pointer of its code.
ChainTags(code) ==
  UNION {IndexTags(code[i].e) :
           i \in {j \in DOMAIN code : code[j].k = "let" /\ code[j].name # "test_val"}}

C17_AddressCases ==
  {"address_uniform_literal", "address_uniform_value", "address_nonuniform_value",
   "address_uniform_chain", "address_nonuniform_chain1", "address_nonuniform_chain2"}

\* C17: the address tag of a pointer is Uniform iff every index in the whole
\* chain of address-of, member and index steps that produced it, across the
\* intermediate let-bound pointers, is Uniform; workgroupUniformLoad of a
\* pointer with a Divergent address is a violation under Uniform execution;
\* and dereferencing a pointer with a Divergent address yields Divergent
\* contents, although the variable was never written.
C17_AddressIsMeetOfChain ==
  /\ test = "pointers" /\ params.case \in C17_AddressCases =>
       LET tag == MeetAll(ChainTags(kPointerCases[params.case].code))
       IN  /\ ChainTags(kPointerCases[params.case].code) # {}
           /\ Len(post.sites) = 1 /\ post.sites[1].op = "workgroupUniformLoad"
           /\ post.sites[1].cf = Uniform
           /\ post.sites[1].addr = tag
           /\ post.sites[1].violation = (tag = Divergent)
           /\ LastCall.expected = (tag = Uniform)
           /\ LastCall.accepted = LastCall.expected
  /\ test = "pointers" /\ params.case = "wg_uniform_load_is_uniform" =>
       /\ Len(post.sites) = 2 /\ post.sites[1].op = "workgroupUniformLoad"
       /\ post.sites[1].addr = Uniform /\ ~post.sites[1].violation
       /\ LastCall.expected /\ LastCall.accepted
  /\ test = "pointers" /\ params.case \in keysOf(kPointerCases_composite) =>
       LET code == kPointerCases[params.case].code
           tag == MeetAll(ChainTags(code))
       IN  /\ ChainTags(code) # {}
           /\ \A i \in DOMAIN code : code[i].k = "let"
           /\ code[Len(code)].e.k = "deref"
           /\ post.v["test_val"] = tag
           /\ post.v["func_array"] = Uniform /\ post.v["func_struct"] = Uniform
           /\ Len(post.sites) = 1 /\ post.sites[1].cf = tag
           /\ LastCall.expected = (tag = Uniform)
           /\ LastCall.accepted = LastCall.expected

\* C17 witness: a Divergent index in the second of four chained pointers
\* makes workgroupUniformLoad of the fourth a violation under Uniform
\* execution, and a Divergent index in the last of six makes the
\* dereference of the sixth Divergent.
C17_Witness ==
  /\ test = "pointers"
  /\ \/ /\ params.case = "address_nonuniform_chain1"
        /\ post.sites[1].cf = Uniform /\ post.sites[1].addr = Divergent
        /\ post.sites[1].violation /\ ~LastCall.accepted
     \/ /\ params.case = "contents_struct_chain_nonuniform3"
        /\ post.v["test_val"] = Divergent /\ ~LastCall.accepted

(***************************************************************************)
(* C18: short-circuit operators on side-effect-free operands               *)
(***************************************************************************)
C18_Cases ==
  keysOf(kShortCircuitExpressionCases_or) \cup keysOf(kShortCircuitExpressionCases_and)

C18_ShortCircuitConds ==
  {"uniform_or", "nonuniform_or1", "nonuniform_or2",
   "uniform_and", "nonuniform_and1", "nonuniform_and2"}

\* The tag of one operand of a basics condition, where the function's
\* declarations u_let and n_let are in scope.
C18_OperandTag(operand, stage) ==
  LET code == BasicsCode("workgroupBarrier", stage, "uniform_or", "if")
      prologue == SubSeq(code, 1, Len(code) - 1)
  IN  Eval(operand, Analyze(prologue, FALSE).next).tag

\* The cases of the table that apply the same operator to the operands of
\* expression e in the other order.
C18_Swapped(e) ==
  {c \in C18_Cases :
     LET f == kShortCircuitExpressionCases[c].code[1].e
     IN  f.op = e.op /\ f.l = e.r /\ f.r = e.l}

\* C18: `a && b` and `a || b` with side-effect-free operands are Uniform iff
\* both operands are Uniform, whichever operand comes first, and `a && a`,
\* `a || a` have the tag of `a`: the value bound to x, the ambient uniformity
\* of the call guarded by x and the required verdict are the meet of the two
\* operand tags, the case with the operands swapped has the same verdict, and
\* the same holds for the short-circuit conditions of the basics test.
C18_ShortCircuitIsMeetOfOperands ==
  /\ (test = "short_circuit_expressions" /\ params.case \in C18_Cases) =>
       LET e == kShortCircuitExpressionCases[params.case].code[1].e
           tag == Meet(LeafExprTag(e.l), LeafExprTag(e.r))
       IN  /\ e.k = "sc"
           /\ post.v["x"] = tag
           /\ Len(post.sites) = 1
           /\ post.sites[1].cf = tag
           /\ LastCall.expected = (tag = Uniform)
           /\ LastCall.accepted = LastCall.expected
           /\ C18_Swapped(e) # {}
           /\ \A c \in C18_Swapped(e) :
                kShortCircuitExpressionCases[c].uniform = LastCall.expected
           /\ e.l = e.r => post.v["x"] = LeafExprTag(e.l)
  /\ (test = "basics" /\ params.cond \in C18_ShortCircuitConds) =>
       LET e == generateCondition(params.cond)
           stage == StageOf(params.op)
           tag == Meet(C18_OperandTag(e.l, stage), C18_OperandTag(e.r, stage))
       IN  /\ e.k = "sc"
           /\ Len(post.sites) = 1
           /\ post.sites[1].cf = tag
           /\ LastCall.expected = (tag = Uniform)
           /\ LastCall.accepted = LastCall.expected

\* C18 witness: `nonuniform_cond || uniform_cond`, whose first operand is the
\* Divergent one, is Divergent and its guarded sample is rejected.
C18_Witness ==
  /\ test = "short_circuit_expressions"
  /\ params.case = "or_nonuniform_uniform"
  /\ post.v["x"] = Divergent
  /\ post.sites[1].violation
  /\ ~LastCall.accepted


(***************************************************************************)
(* C19: a collective operation as an operand of a short-circuit operator   *)
(***************************************************************************)
C19_Cases ==
  keysOf(kShortCircuitExpressionCases_or_side_effect)
  \cup keysOf(kShortCircuitExpressionCases_and_side_effect)

\* The ambient uniformity the rule gives the sample in expression e, which is
\* the whole of a function body under Uniform execution: the left operand is
\* always evaluated, the right one only under a decision on the left one.
C19_SampleCf(e) ==
  IF e.l = SampleEqZero THEN Uniform ELSE Meet(Uniform, LeafExprTag(e.l))

\* C19: short-circuit operators are not commutative for the analysis. With
\* the sample as the left operand of `&&` or `||` and a Divergent right
\* operand the program is accepted; with the same two operands in the other
\* order the sample is under Divergent execution and the program is rejected
\* (and accepted again once derivative_uniformity is switched off).
C19_ShortCircuitNotCommutative ==
  (test = "short_circuit_expressions" /\ params.case \in C19_Cases) =>
    LET e == kShortCircuitExpressionCases[params.case].code[1].e
        other == CHOOSE c \in C19_Cases \ {params.case} :
                   kShortCircuitExpressionCases[c].code[1].e.op = e.op
        f == kShortCircuitExpressionCases[other].code[1].e
    IN  /\ e.k = "sc"
        /\ {e.l, e.r} = {SampleEqZero, nonuniform_cond}
        /\ LeafExprTag(nonuniform_cond) = Divergent
        /\ f.l = e.r /\ f.r = e.l
        /\ Len(post.sites) = 1
        /\ post.sites[1].op = "textureSample"
        /\ post.sites[1].cf = C19_SampleCf(e)
        /\ post.sites[1].violation = (e.r = SampleEqZero)
        /\ LastCall.expected = (e.l = SampleEqZero)
        /\ LastCall.accepted = LastCall.expected
        /\ kShortCircuitExpressionCases[other].uniform = ~LastCall.expected
        /\ e.r = SampleEqZero =>
             /\ Len(calls) = 2
             /\ calls[1].off /\ calls[1].expected /\ calls[1].accepted

\* C19 witness: `nonuniform_cond && textureSample(..).x == 0` is rejected
\* because the sample is the right operand of a Divergent left operand.
C19_Witness ==
  /\ test = "short_circuit_expressions"
  /\ params.case = "and_uniform_second_nonuniform"
  /\ post.sites[1].cf = Divergent
  /\ post.sites[1].violation
  /\ ~LastCall.accepted
  /\ calls[1].accepted

(***************************************************************************)
(* C20: assignment to one member or element of a composite variable        *)
(***************************************************************************)
C20_Cases ==
  keysOf(kFuncVarCases_partial) \cup keysOf(kFuncVarCases_partial_all_members)
  \cup keysOf(kFuncVarCases_partial_single_element)

\* The member or element of x an expression x.f or x[i] names.
C20_MemberOf(e) == IF e.k = "member" THEN e.field ELSE e.idx.name

\* The tags of the values the assignments write to member m.
C20_WrittenTags(stmts, m) ==
  {LeafExprTag(stmts[i].e) :
     i \in {j \in DOMAIN stmts : C20_MemberOf(stmts[j].lhs) = m}}

\* C20: writing a Uniform value to one member or element of x leaves a later
\* read of that member Uniform only if x was Uniform before the writes
\* (declared without initialiser or with a Uniform one), also when every
\* member is written one by one and when x has a single member; writing a
\* Divergent value to the member makes the read Divergent whatever x was.
C20_PartialAssignmentKeepsOldTag ==
  (test = "function_variables" /\ params.case \in C20_Cases) =>
    LET c == kFuncVarCases[params.case]
        stmts == c.assignment
        m == C20_MemberOf(c.cond.l)
        written == C20_WrittenTags(stmts, m)
        pre == PreTag(params.init)
        tag == Meet(pre, MeetAll(written))
    IN  /\ \A j \in DOMAIN stmts :
             /\ stmts[j].k = "assign"
             /\ stmts[j].lhs.k \in {"member", "index"} /\ stmts[j].lhs.base = X
             /\ C20_MemberOf(stmts[j].lhs) \in typedecl[params.case]
        /\ c.cond.l.base = X /\ m \in typedecl[params.case]
        /\ written # {}
        /\ written = {Uniform} =>
             /\ LastCall.expected = (params.init \in {"no_init", "uniform"})
             /\ (post.v["x"] = Uniform) = (pre = Uniform)
        /\ Divergent \in written =>
             ~LastCall.expected /\ post.v["x"] = Divergent
        /\ Len(post.sites) = 1
        /\ post.sites[1].cf = tag
        /\ post.sites[1].violation = (tag = Divergent)
        /\ LastCall.expected = (tag = Uniform)
        /\ LastCall.accepted = LastCall.expected

\* C20 witness: both members of a Divergent x are overwritten with Uniform
\* values and the read of x.x is still Divergent; the only member of a
\* single-member x is overwritten with a Uniform value and the read is still
\* Divergent; a Divergent write to x.x of a Uniform x makes the read Divergent.
C20_Witness ==
  /\ test = "function_variables"
  /\ \/ /\ params.case = "partial_assignment_all_members_uniform"
        /\ params.init = "nonuniform"
        /\ {C20_MemberOf(kFuncVarCases[params.case].assignment[j].lhs) : j \in 1..2}
             = typedecl[params.case]
        /\ post.sites[1].cf = Divergent /\ ~LastCall.accepted
     \/ /\ params.case = "partial_assignment_single_element_struct_uniform"
        /\ params.init = "nonuniform"
        /\ Cardinality(typedecl[params.case]) = 1
        /\ post.sites[1].cf = Divergent /\ ~LastCall.accepted
     \/ /\ params.case = "partial_assignment_nonuniform"
        /\ params.init = "uniform"
        /\ post.sites[1].cf = Divergent /\ ~LastCall.accepted

(***************************************************************************)
(* C21: ambient uniformity is restored at the end of a construct           *)
(***************************************************************************)
C21_Cases == keysOf(kFuncVarCases_loop_in_loop)

\* C21: the ambient execution uniformity is restored when a construct ends.
\* The inner loop, left by a break under a condition, ends with x carrying
\* the meet of the value written in it and that condition, and with the
\* ambient uniformity of the enclosing block (Uniform); the write that
\* follows it therefore gives x the tag of the written value alone, and the
\* sample guarded by x in the continuing block is permitted after a Uniform
\* write and a violation after a Divergent one, whatever x was initialised to.
C21_AmbientRestoredAfterConstruct ==
  (test = "function_variables" /\ params.case \in C21_Cases) =>
    LET outer == kFuncVarCases[params.case].assignment[1]
        inner == outer.body[1]
        later == outer.body[2]
        r == Analyze(<<VarDecl("x", kVarInit[params.init]), inner>>, FALSE)
        innerTag == Meet(LeafExprTag(inner.body[1].e), LeafExprTag(inner.body[2].c))
        tag == LeafExprTag(later.e)
    IN  /\ outer.k = "loop" /\ inner.k = "loop" /\ Len(outer.body) = 2
        /\ inner.body[1].k = "assign" /\ inner.body[1].lhs = X
        /\ inner.body[2].k = "if" /\ inner.body[2].t = <<Break>>
        /\ later.k = "assign" /\ later.lhs = X
        /\ outer.cont = <<SampleIfX>> /\ LeafExprTag(outer.brkif) = Uniform
        /\ r.live /\ r.next.cf = Uniform /\ r.next.v["x"] = innerTag
        /\ tag # innerTag
        /\ Len(post.sites) = 2
        /\ post.sites[1].cf = tag
        /\ post.sites[1].violation = (tag = Divergent)
        /\ post.sites[2].cf = Uniform /\ ~post.sites[2].violation
        /\ post.cf = Uniform
        /\ LastCall.expected = (tag = Uniform)
        /\ LastCall.accepted = LastCall.expected

\* C21 witness: the inner loop wrote a Divergent x and was left under a
\* Divergent break, the following Uniform write makes the guarded sample
\* permitted even for a Divergent initialiser.
C21_Witness ==
  /\ test = "function_variables"
  /\ params.case = "loop_in_loop_with_continue_uniform"
  /\ params.init = "nonuniform"
  /\ post.sites[1].cf = Uniform /\ ~post.sites[1].violation
  /\ LastCall.expected /\ LastCall.accepted

(***************************************************************************)
(* C22: diagnostic(off, derivative_uniformity)                             *)
(***************************************************************************)
C22_Tests ==
  {"function_variables", "fragment_builtin_values", "short_circuit_expressions",
   "binary_expressions", "unary_expressions"}

\* The body of the program the current test case generated.
C22_Program ==
  CASE test = "function_variables" -> FuncVarCode(params.case, params.init)
    [] test = "fragment_builtin_values" ->
         LET b == CHOOSE i \in DOMAIN kFragmentBuiltinValues :
                    kFragmentBuiltinValues[i].builtin = params.builtin
         IN  FragmentBuiltinCode(params.builtin, kFragmentBuiltinValues[b].type)
    [] test = "short_circuit_expressions" -> kShortCircuitExpressionCases[params.case].code
    [] test = "binary_expressions" -> BinaryCode(params.e1, params.e2, params.op)
    [] test = "unary_expressions" -> UnaryCode(params.e1, params.op)

\* C22: every program rejected for a derivative-uniformity violation is
\* accepted with the directive diagnostic(off, derivative_uniformity) in
\* front of it, and nothing else changes: each test that expects a rejection
\* first requires, and gets, acceptance of the same program with the
\* directive; the analysis with the directive visits the same call sites
\* under the same ambient uniformity and ends in the same state, only no
\* site is a violation.
C22_DiagnosticOffAcceptsRejected ==
  test \in C22_Tests =>
    LET on == Analyze(C22_Program, FALSE)
        off == Analyze(C22_Program, TRUE)
    IN  /\ post = Summary(on)
        /\ \A i \in Violations(post.sites) : IsDerivativeOp(post.sites[i].op)
        /\ ~LastCall.off
        /\ ~LastCall.accepted =>
             /\ Len(calls) = 2
             /\ calls[1].off /\ calls[1].expected /\ calls[1].accepted
        /\ LastCall.accepted => (Len(calls) = 1 \/ test = "fragment_builtin_values")
        /\ Compiles(C22_Program, TRUE)
        /\ Violations(off.sites) = {}
        /\ Len(off.sites) = Len(on.sites)
        /\ \A i \in DOMAIN on.sites :
             /\ off.sites[i].op = on.sites[i].op
             /\ off.sites[i].cf = on.sites[i].cf
             /\ off.sites[i].addr = on.sites[i].addr
        /\ off.next.v = on.next.v /\ off.next.cf = on.next.cf
        /\ off.live = on.live /\ off.passes = on.passes

\* C22 witness: a sample guarded by a fragment builtin value is rejected as
\* written and accepted with the directive.
C22_Witness ==
  /\ test = "fragment_builtin_values"
  /\ Len(calls) = 2
  /\ calls[1].off /\ calls[1].accepted
  /\ ~calls[2].off /\ ~calls[2].accepted
  /\ post.sites[1].violation

(***************************************************************************)
(* C27: the state of a composite variable                                  *)
(***************************************************************************)
\* The tag of member m when every member has a tag of its own: the
\* declaration writes all members, a member assignment replaces the tag of
\* its member only.
RECURSIVE C27_OwnTag(_, _, _, _)
C27_OwnTag(stmts, i, m, cur) ==
  IF i > Len(stmts) THEN cur
  ELSE C27_OwnTag(stmts, i + 1, m,
                  IF C20_MemberOf(stmts[i].lhs) = m
                  THEN LeafExprTag(stmts[i].e) ELSE cur)

\* C27 (as stated): each member of a composite variable has its own tag,
\* written independently, and the tag read from a member depends on that
\* member's own tags only: the sample guarded by a member of x is judged
\* under the tag last written to that member.
C27_MemberTagsIndependent ==
  (test = "function_variables" /\ params.case \in C20_Cases) =>
    LET c == kFuncVarCases[params.case]
        own == C27_OwnTag(c.assignment, 1, C20_MemberOf(c.cond.l),
                          PreTag(params.init))
    IN  /\ post.sites[1].cf = own
        /\ LastCall.expected = (own = Uniform)

\* C27 (amended): the tag read from a member after writes to it is the meet
\* of the tag the whole variable had before the writes and the tags written
\* to the member; it differs from the tag last written to the member exactly
\* when that tag is Uniform and the variable was Divergent before.
C27_MemberReadMeetsVariableTag ==
  (test = "function_variables" /\ params.case \in C20_Cases) =>
    LET c == kFuncVarCases[params.case]
        m == C20_MemberOf(c.cond.l)
        pre == PreTag(params.init)
        own == C27_OwnTag(c.assignment, 1, m, pre)
        read == Meet(pre, MeetAll(C20_WrittenTags(c.assignment, m)))
    IN  /\ post.sites[1].cf = read
        /\ post.v["x"] = read
        /\ LastCall.expected = (read = Uniform)
        /\ LastCall.accepted = LastCall.expected
        /\ (read # own) = (own = Uniform /\ pre = Divergent)

\* C27 witness: x is initialised Divergent, x.x is then written with a
\* Uniform value, and the read of x.x is Divergent.
C27_Witness ==
  /\ test = "function_variables"
  /\ params.case = "partial_assignment_uniform" /\ params.init = "nonuniform"
  /\ C27_OwnTag(kFuncVarCases[params.case].assignment, 1, "x", Divergent) = Uniform
  /\ post.sites[1].cf = Divergent /\ post.sites[1].violation
  /\ ~LastCall.expected /\ ~LastCall.accepted

(***************************************************************************)
(* C23: a violation does not stop the analysis                             *)
(***************************************************************************)
\* The number of collective calls written in a statement list from its
\* i-th statement on, and in one statement (in these bodies a call is a
\* statement of its own or the whole initialiser of a let).
RECURSIVE C23_CallsInSeq(_, _), C23_CallsIn(_)
C23_CallsInSeq(stmts, i) ==
  IF i > Len(stmts) THEN 0
  ELSE C23_CallsIn(stmts[i]) + C23_CallsInSeq(stmts, i + 1)

C23_CallsIn(s) ==
  CASE s.k \in {"let", "expr"} -> IF s.e.k = "call" THEN 1 ELSE 0
    [] s.k = "if" -> C23_CallsInSeq(s.t, 1) + C23_CallsInSeq(s.e, 1)
    [] s.k = "loop" -> C23_CallsInSeq(s.body, 1) + C23_CallsInSeq(s.cont, 1)
    [] OTHER -> 0

\* The statement list with every collective call taken out: a call statement
\* is dropped, a call whose value is bound is replaced by a literal.
RECURSIVE C23_PermittedSeq(_, _), C23_Permitted(_)
C23_PermittedSeq(stmts, i) ==
  IF i > Len(stmts) THEN <<>>
  ELSE (IF stmts[i].k = "expr" THEN <<>> ELSE <<C23_Permitted(stmts[i])>>)
       \o C23_PermittedSeq(stmts, i + 1)

C23_Permitted(s) ==
  CASE s.k = "let" -> IF s.e.k = "call" THEN Let(s.name, Lit) ELSE s
    [] s.k = "if" -> If(s.c, C23_PermittedSeq(s.t, 1), C23_PermittedSeq(s.e, 1))
    [] s.k = "loop" ->
         Loop(C23_PermittedSeq(s.body, 1), C23_PermittedSeq(s.cont, 1), s.brkif)
    [] OTHER -> s

\* C23: a violation does not stop the analysis. Every collective call
\* written in the function has its own call site record, each judged by the
\* ambient uniformity at that site alone; the violations reported are all
\* the sites under Divergent execution, however many; and the state the
\* analysis ends in is the state it ends in for the same function with the
\* calls taken out.
C23_AllViolationsReported ==
  test = "analyze" =>
    LET without == Analyze(C23_PermittedSeq(program, 1), FALSE)
    IN  /\ Len(post.sites) = C23_CallsInSeq(program, 1)
        /\ \A i \in DOMAIN post.sites :
             post.sites[i].violation = (post.sites[i].cf = Divergent)
        /\ Violations(post.sites) = {i \in DOMAIN post.sites : post.sites[i].cf = Divergent}
        /\ LastCall.accepted = (Violations(post.sites) = {})
        /\ C23_CallsInSeq(C23_PermittedSeq(program, 1), 1) = 0
        /\ without.sites = <<>>
        /\ post.v = without.next.v
        /\ post.cf = without.next.cf
        /\ post.live = without.live
        /\ post.passes = without.passes

\* C23 witness: a function with three call sites of which the first is
\* permitted and the two after it are both violations.
C23_Witness ==
  /\ test = "analyze"
  /\ Len(post.sites) = 3
  /\ ~post.sites[1].violation
  /\ post.sites[2].violation /\ post.sites[3].violation
  /\ Violations(post.sites) = {2, 3}

(***************************************************************************)
(* C24: the verdicts do not depend on the order of processing              *)
(***************************************************************************)
\* The statement list in which the two edges out of every if are listed in
\* the other order: if c {t} else {e} becomes if !c {e} else {t}.
RECURSIVE C24_SwapSeq(_, _), C24_Swap(_)
C24_SwapSeq(stmts, i) ==
  IF i > Len(stmts) THEN <<>>
  ELSE <<C24_Swap(stmts[i])>> \o C24_SwapSeq(stmts, i + 1)

C24_Swap(s) ==
  CASE s.k = "if" -> If(Un("!", s.c), C24_SwapSeq(s.e, 1), C24_SwapSeq(s.t, 1))
    [] s.k = "loop" -> Loop(C24_SwapSeq(s.body, 1), C24_SwapSeq(s.cont, 1), s.brkif)
    [] OTHER -> s

\* How many of the sites are equal to site r.
C24_Count(sites, r) == Cardinality({i \in DOMAIN sites : sites[i] = r})

C25_Below(s1, s2) ==
  /\ \A n \in VarNames : s1.v[n] = Uniform => s2.v[n] = Uniform
  /\ s1.cf = Uniform => s2.cf = Uniform

\* The state on the back edge of loop s, entered from st, after one pass
\* over body and continuing block from the header state entry.
C25_Back(s, st, entry) ==
  Bind(AnalyzeSeq(s.body, 1, entry),
       LAMBDA b :
         Bind(AnalyzeContinuing(s, b),
              LAMBDA c :
                Bind(EvalBreakIf(s, c),
                     LAMBDA cond :
                       JoinOpt(st, TRUE, WithCf(c.next, cond.tag), c.live))))

\* The header states of the first n passes and of the one after them, given
\* those of the passes so far.
RECURSIVE C25_Headers(_, _, _, _)
C25_Headers(s, st, sofar, n) ==
  IF n = 0 THEN sofar
  ELSE Bind(C25_Back(s, st, sofar[Len(sofar)]),
            LAMBDA back : C25_Headers(s, st, Append(sofar, back), n - 1))

\* The passes after which the header state no longer changes.
C25_StableAt(h) == {k \in 1..(Len(h) - 1) : h[k + 1] = h[k]}

\* C25: the analysis of every function body terminates. No loop, nested or
\* not, uses up the passes the iteration is capped at; the header states of
\* the successive passes over a loop only move tags from Uniform to
\* Divergent; and the iteration stops at the first pass whose back edge
\* leaves the header state unchanged, after which it never changes again.
C25_FixedPointTerminates ==
  test = "analyze" =>
    /\ post.passes < MaxPasses
    /\ (Len(program) = 5 /\ program[4].k = "loop") =>
         Bind(C25_Headers(program[4], Analyze(SubSeq(program, 1, 3), FALSE).next,
                          <<Analyze(SubSeq(program, 1, 3), FALSE).next>>, MaxPasses),
              LAMBDA h :
                /\ Len(h) = MaxPasses + 1
                /\ \A k \in 1..MaxPasses : C25_Below(h[k + 1], h[k])
                /\ C25_StableAt(h) # {}
                /\ \A k \in 1..MaxPasses : k \in C25_StableAt(h) <=> k >= post.passes)

\* C25 witness: a loop nested in a loop, and a loop whose header state
\* changed on two successive passes before it became stable.
C25_Witness ==
  /\ test = "analyze"
  /\ \/ /\ Len(program) = 3 /\ program[3].k = "loop"
        /\ program[3].body[2].k = "loop"
        /\ post.passes = 3
     \/ /\ Len(program) = 5 /\ program[4].k = "loop"
        /\ post.passes = 3

(***************************************************************************)
(* C26: the number of passes over a loop                                   *)
(***************************************************************************)
\* The tags in which two states differ.
C26_Changed(s1, s2) ==
  {n \in VarNames : s1.v[n] # s2.v[n]} \cup (IF s1.cf # s2.cf THEN {"cf"} ELSE {})

\* The call sites of one pass over body and continuing block of loop s from
\* the header state entry.
C26_PassSites(s, entry) ==
  Bind(AnalyzeSeq(s.body, 1, entry),
       LAMBDA b : Bind(AnalyzeContinuing(s, b), LAMBDA c : b.sites \o c.sites))

C26_IsLoopProgram == test = "analyze" /\ Len(program) = 5 /\ program[4].k = "loop"

\* The header states of the passes over the loop of a loop program.
C26_LoopHeaders ==
  C25_Headers(program[4], Analyze(SubSeq(program, 1, 3), FALSE).next,
              <<Analyze(SubSeq(program, 1, 3), FALSE).next>>, MaxPasses)

C28_IsCompute == checked.fn \in {"compute,all_active", "compute,split"}

C28_Bound == Length(checked.output) \div 2

C28_Active(i) ==
  filter(checked.predicate, checked.metadata[i], checked.metadata[C28_Bound + i])

C28_Broadcasters(i) ==
  {j \in 0..(C28_Bound - 1) :
     /\ checked.output[C28_Bound + j] = checked.output[C28_Bound + i]
     /\ checked.metadata[j] \div 4 = checked.metadata[i] \div 4
     /\ checked.metadata[j] % 4 = checked.broadcast}

C28_NoErrorMeansBroadcastIndex ==
  (C28_IsCompute /\ ~checked.result.error) =>
    \A i \in 0..(C28_Bound - 1) :
      IF C28_Active(i)
      THEN \A j \in C28_Broadcasters(i) : checked.output[i] = j
      ELSE checked.output[i] = kDataSentinel

\* C29: checkFragment returns an error when width < 3 or height < 3;
\* otherwise it returns no error iff every pixel whose 2x2 quad lies above
\* the last row and left of the last column stores, as column component,
\* 2*floor(col/2) + (broadcast mod 2) and, as row component,
\* 2*floor(row/2) + floor(broadcast/2); the pixels of quads that touch the
\* last row or column never influence the result.
C29_QuadInside(row, col) ==
  /\ 2 * (row \div 2) + 1 < checked.height - 1
  /\ 2 * (col \div 2) + 1 < checked.width - 1

C29_Index(row, col) ==
  coordToIndex(checked.format, checked.width, checked.height, row, col)

C29_PixelRight(row, col) ==
  /\ checked.data[C29_Index(row, col)] = 2 * (col \div 2) + (checked.broadcast % 2)
  /\ checked.data[C29_Index(row, col) + 1] = 2 * (row \div 2) + (checked.broadcast \div 2)

\* The framebuffer with every texel of a quad that touches the last row or
\* column overwritten.
C29_Masked ==
  [w \in DOMAIN checked.data |->
     LET u == getUintsPerFramebuffer(checked.format, checked.width, checked.height)
     IN  IF C29_QuadInside(w \div u.uintsPerRow, (w % u.uintsPerRow) \div u.uintsPerTexel)
         THEN checked.data[w] ELSE 4242]

C29_CheckFragmentIffInnerQuadsRight ==
  checked.fn = "checkFragment" =>
    IF checked.width < 3 \/ checked.height < 3
    THEN checked.result.error
    ELSE /\ ~checked.result.error <=>
              \A row \in 0..(checked.height - 1), col \in 0..(checked.width - 1) :
                C29_QuadInside(row, col) => C29_PixelRight(row, col)
         /\ checkFragment(C29_Masked, checked.format, checked.width,
                          checked.height, checked.broadcast).error
              = checked.result.error

\* A 5 x 4 framebuffer whose only wrong component belongs to a quad that
\* touches the last column, accepted.
C29_Witness ==
  /\ checked.fn = "checkFragment"
  /\ checked.width = 5 /\ checked.height = 4 /\ checked.broadcast = 1
  /\ checked.data # Framebuffer(checked.format, 5, 4, 1)
  /\ ~C29_PixelRight(1, 4)
  /\ \A col \in 0..3 : C29_PixelRight(1, col)
  /\ ~checked.result.error

\* C30: checkDataTypes returns no error iff the output element of each of
\* the four invocations equals the input element at index `broadcast`, word
\* by word: 1, 2, 4, 4 words for 32-bit scalars, vec2, vec3, vec4, half as
\* many for f16 vectors, and for f16 scalars the 16-bit half k of the packed
\* words (low half of word floor(k/2) for even k, high half for odd k).
C30_Words(type) ==
  LET words == <<1, 2, 4, 4>>[type.width]
  IN  IF type.f16 THEN words \div 2 ELSE words

C30_Element(arr, k, type) ==
  IF type.f16 /\ type.width = 1
  THEN <<IF k % 2 = 0 THEN arr[k \div 2].lo ELSE arr[k \div 2].hi>>
  ELSE [j \in 1..C30_Words(type) |-> arr[k * C30_Words(type) + j - 1]]

C30_NoErrorIffElementsEqualBroadcast ==
  checked.fn = "checkDataTypes" =>
    (~checked.result.error <=>
       \A i \in 0..3 :
         C30_Element(checked.output, i, checked.type)
           = C30_Element(checked.input, checked.broadcast, checked.type))

\* Packed f16 scalars whose high halves have the top bit set, the high half
\* of word 1 broadcast, accepted.
C30_Witness ==
  /\ checked.fn = "checkDataTypes"
  /\ checked.type = Type(TRUE, 1)
  /\ checked.broadcast = 3
  /\ checked.input[1].hi >= 32768
  /\ checked.output[0] = U32(checked.input[1].hi, checked.input[1].hi)
  /\ ~checked.result.error

====
